---- MODULE Spec2Model ----
(***************************************************************************)
(* AgentVille bridge: the heartbeat / raw-event ingestion server           *)
(* (server/bridge.mjs), the persistent agent store (server/agentStore.mjs) *)
(* and the persistent building store (server/buildingStore.mjs).           *)
(*                                                                         *)
(* Strings that the code takes apart (agent labels) are sequences of       *)
(* one-character strings; all other strings are TLA+ strings.              *)
(***************************************************************************)
EXTENDS Integers, Sequences, FiniteSets, TLC

VARIABLES
    agents,             \* bridge.mjs `agents` Map: agentId -> live session
    store,              \* agentStore `store.agents`: agentId -> durable profile
    buildings,          \* buildingStore `store.buildings`: buildingId -> profile
    buildingPrevLevels, \* bridge.mjs `buildingPrevLevels` Map
    now,                \* Date.now(), in milliseconds
    inflight,           \* requests whose body is still being read (await readBody)
    requests,           \* number of requests accepted so far
    agentOrder,         \* the keys of `agents` in the Map's insertion order
    assigned,           \* dwarfNames `assigned` Map: agentId -> name
    usedNames,          \* dwarfNames `usedNames` Set
    sweeps,             \* number of timer firings so far
    emitted,            \* the events broadcast by the last step, in order
    last,               \* what the last step was: request, and the state it found
    achieved,           \* <<agentId, toolCalls>> of every agent:achievement broadcast so far
    storeOrder,         \* the keys of `store.agents` in the object's key order
    buildingOrder,      \* the keys of `store.buildings` in the object's key order
    sseClients,         \* bridge.mjs `sseClients` Set: the connected dashboards
    written,            \* what the last step wrote to each connected dashboard
    disk                \* the two store files, whether they can be written, the saves in
                        \* progress and the save timers

vars == <<agents, store, buildings, buildingPrevLevels, now, inflight,
          requests, agentOrder, assigned, usedNames, sweeps, emitted, last, achieved,
          storeOrder, buildingOrder, sseClients, written, disk>>

---------------------------------------------------------------------------
(* Bounds of the model *)

MaxRequests == 3        \* requests accepted in one run of the village
MaxBeats    == 3        \* requests accepted in one run of a single session
MaxInflight == 2        \* requests being read at the same time
MaxSweeps   == 2        \* timer firings modelled in one run

---------------------------------------------------------------------------
(* Program constants *)

DESPAWN_TIMEOUT == 600000
SWEEP_INTERVAL  == 5000
AGENT_BYTES_PER_XP    == 5000
BUILDING_BYTES_PER_XP == 10000
MAX_RECENT == 20

\* JS null / undefined / absent JSON field, for string-valued fields
Null == "<null>"

---------------------------------------------------------------------------
(* Agent identifiers: rawName.toLowerCase().replace(/[^a-z0-9]+/g, '-') *)

ToLowerCase(c) ==
    CASE c = "A" -> "a" [] c = "B" -> "b" [] c = "C" -> "c" [] c = "P" -> "p"
      [] c = "U" -> "u" [] OTHER -> c

IsAlnum(c) ==
    c \in {"a","b","c","d","e","g","k","n","o","p","t","u","w",
           "0","1","2","3","4","5","6","7","8","9"}

RECURSIVE NormalizeFrom(_, _, _)
\* s: the label, i: next position, acc: the output so far.  A maximal run of
\* characters outside [a-z0-9] (after lower-casing) becomes one "-".
NormalizeFrom(s, i, acc) ==
    IF i > Len(s) THEN acc
    ELSE LET c == ToLowerCase(s[i]) IN
         IF IsAlnum(c) THEN NormalizeFrom(s, i + 1, Append(acc, c))
         ELSE IF i > 1 /\ ~IsAlnum(ToLowerCase(s[i - 1]))
              THEN NormalizeFrom(s, i + 1, acc)
              ELSE NormalizeFrom(s, i + 1, Append(acc, "-"))

NormalizeId(rawName) == NormalizeFrom(rawName, 1, <<>>)

UnknownAgent == <<"U","n","k","n","o","w","n"," ","A","g","e","n","t">>

---------------------------------------------------------------------------
(* Progression engine of the agent store *)

LEVELS == <<
    [level |-> 1,  title |-> "Apprentice",   minXP |-> 0],
    [level |-> 2,  title |-> "Journeyman",   minXP |-> 50],
    [level |-> 3,  title |-> "Craftsman",    minXP |-> 200],
    [level |-> 4,  title |-> "Smith",        minXP |-> 500],
    [level |-> 5,  title |-> "Master",       minXP |-> 1200],
    [level |-> 6,  title |-> "Grand Master", minXP |-> 3000],
    [level |-> 7,  title |-> "Rune Master",  minXP |-> 7000],
    [level |-> 8,  title |-> "Legendary",    minXP |-> 15000],
    [level |-> 9,  title |-> "Mythical",     minXP |-> 30000],
    [level |-> 10, title |-> "Divine",       minXP |-> 60000] >>

\* A scan that passes over the entry whose threshold xp has just reached
LevelAbove(table, xp, i) ==
    LET above == {k \in 1..i : xp > table[k].minXP}
    IN  IF above = {} THEN table[1]
        ELSE table[CHOOSE k \in above : \A j \in above : j <= k]

RECURSIVE LevelFrom(_, _, _)
\* for (i = length-1; i >= 0; i--) if (xp >= table[i].minXP) return table[i]
LevelFrom(table, xp, i) ==
    IF i < 1 THEN table[1]
    ELSE IF xp >= table[i].minXP THEN table[i]
    ELSE LevelFrom(table, xp, i - 1)

getLevel(xp) == LevelFrom(LEVELS, xp, Len(LEVELS))

NoLevel == [level |-> 0, title |-> Null, minXP |-> 0]

RECURSIVE NextLevelFrom(_, _, _)
\* for (const lvl of table) if (xp < lvl.minXP) return lvl; return null
NextLevelFrom(table, xp, i) ==
    IF i > Len(table) THEN NoLevel
    ELSE IF xp < table[i].minXP THEN table[i]
    ELSE NextLevelFrom(table, xp, i + 1)

getNextLevel(xp) == NextLevelFrom(LEVELS, xp, 1)

calculateXP(profile) ==
    LET bytes == profile.totalInputBytes + profile.totalOutputBytes + profile.totalBytes
    IN  profile.toolCalls + (bytes \div AGENT_BYTES_PER_XP)

---------------------------------------------------------------------------
(* Agent store.  A store value st is a function from the agentIds that    *)
(* have a profile to their profiles.                                       *)

\* Numbers the model keeps apart from the integers: the double Infinity, and
\* the null that JSON.parse leaves in a number field
Infinity   == 2147483647
NullNumber == -2147483647

\* (x || 0) + y and x += y
JsAdd(x, y) ==
    IF x = Infinity \/ y = Infinity THEN Infinity
    ELSE (IF x = NullNumber THEN 0 ELSE x) + y

NewProfile(dwarfName, parentId) ==
    [ name             |-> dwarfName,
      toolCalls        |-> 0,
      totalInputBytes  |-> 0,
      totalOutputBytes |-> 0,
      totalBytes       |-> 0,      \* legacy combined counter, absent in new profiles
      sessions         |-> 0,
      subAgentsSpawned |-> 0,
      parentId         |-> parentId,
      recentActivity   |-> <<>> ]

\* Mutant of getProfile: a parent that is supplied replaces the stored one
getProfileLastParentWins(st, agentId, dwarfName, parentId) ==
    IF agentId \notin DOMAIN st
    THEN st @@ (agentId :> NewProfile(dwarfName, parentId))
    ELSE [st EXCEPT ![agentId].parentId = IF parentId # Null THEN parentId ELSE @,
                    ![agentId].name = IF dwarfName # Null THEN dwarfName ELSE @]

\* getProfile(agentId, dwarfName, parentId): the store after the call
getProfile(st, agentId, dwarfName, parentId) ==
    LET st1 == IF agentId \notin DOMAIN st
               THEN st @@ (agentId :> NewProfile(dwarfName, parentId))
               ELSE IF parentId # Null /\ st[agentId].parentId = Null
                    THEN [st EXCEPT ![agentId].parentId = parentId]
                    ELSE st
    IN  IF dwarfName # Null /\ st1[agentId].name # dwarfName
        THEN [st1 EXCEPT ![agentId].name = dwarfName]
        ELSE st1

\* Mutant of getStoredName: the store is not consulted
NoStoredName(st, agentId) == Null

\* store.agents[agentId]?.name || null
getStoredName(st, agentId) ==
    IF agentId \in DOMAIN st THEN st[agentId].name ELSE Null

recordToolUse(st, agentId) ==
    IF agentId \notin DOMAIN st THEN st
    ELSE [st EXCEPT ![agentId].toolCalls = @ + 1]

recordBytes(st, agentId, inputBytes, outputBytes) ==
    IF agentId \notin DOMAIN st THEN st
    ELSE [st EXCEPT ![agentId].totalInputBytes = JsAdd(@, inputBytes),
                    ![agentId].totalOutputBytes = JsAdd(@, outputBytes)]

LastN(s, n) == IF Len(s) <= n THEN s ELSE SubSeq(s, Len(s) - n + 1, Len(s))

\* A recordActivity that never evicts
recordActivityUncapped(st, agentId, activity, detail) ==
    IF agentId \notin DOMAIN st THEN st
    ELSE [st EXCEPT ![agentId].recentActivity =
            Append(@, [activity |-> activity, detail |-> detail])]

recordActivity(st, agentId, activity, detail) ==
    IF agentId \notin DOMAIN st THEN st
    ELSE [st EXCEPT ![agentId].recentActivity =
            LastN(Append(@, [activity |-> activity, detail |-> detail]), MAX_RECENT)]

recordSubAgentSpawn(st, parentAgentId) ==
    IF parentAgentId \notin DOMAIN st THEN st
    ELSE [st EXCEPT ![parentAgentId].subAgentsSpawned = @ + 1]

\* Mutant of recordSession: the counter is not touched
SessionNotCounted(st, agentId) == st

recordSession(st, agentId) ==
    IF agentId \notin DOMAIN st THEN st
    ELSE [st EXCEPT ![agentId].sessions = @ + 1]

\* null when the agent has no profile
NoEnriched == [exists |-> FALSE]

\* Mutant of getEnrichedProfile: no profile is ever found
getEnrichedProfileOfNobody(st, agentId) == NoEnriched

getEnrichedProfile(st, agentId) ==
    IF agentId \notin DOMAIN st THEN NoEnriched
    ELSE LET profile == st[agentId]
             xp      == calculateXP(profile)
             halfUp  == (profile.totalBytes + 1) \div 2     \* Math.ceil(totalBytes / 2)
             halfDn  == profile.totalBytes \div 2           \* Math.floor(totalBytes / 2)
         IN  [ exists           |-> TRUE,
               name             |-> profile.name,
               toolCalls        |-> profile.toolCalls,
               totalInputBytes  |-> profile.totalInputBytes
                                      + (IF profile.totalBytes # 0 THEN halfUp ELSE 0),
               totalOutputBytes |-> profile.totalOutputBytes
                                      + (IF profile.totalBytes # 0 THEN halfDn ELSE 0),
               sessions         |-> profile.sessions,
               subAgentsSpawned |-> profile.subAgentsSpawned,
               parentId         |-> profile.parentId,
               recentActivity   |-> profile.recentActivity,
               xp               |-> xp,
               level            |-> getLevel(xp).level,
               title            |-> getLevel(xp).title,
               nextLevelXP      |-> getNextLevel(xp).minXP ]

\* enriched?.level || 1
LevelOr1(enriched) ==
    IF enriched.exists /\ enriched.level # 0 THEN enriched.level ELSE 1

---------------------------------------------------------------------------
(* Building store (buildingStore.mjs).  A store value bs is a function    *)
(* from the building ids that have a profile to their profiles.            *)

BUILDING_LEVELS == <<
    [level |-> 1,  title |-> "Outpost",        minXP |-> 0],
    [level |-> 2,  title |-> "Workshop",       minXP |-> 100],
    [level |-> 3,  title |-> "Hall",           minXP |-> 500],
    [level |-> 4,  title |-> "Stronghold",     minXP |-> 1500],
    [level |-> 5,  title |-> "Citadel",        minXP |-> 4000],
    [level |-> 6,  title |-> "Great Hall",     minXP |-> 10000],
    [level |-> 7,  title |-> "Grand Fortress", minXP |-> 25000],
    [level |-> 8,  title |-> "Ancient Keep",   minXP |-> 60000],
    [level |-> 9,  title |-> "Mythic Bastion", minXP |-> 140000],
    [level |-> 10, title |-> "Eternal Nexus",  minXP |-> 300000] >>

CAMPFIRE_LEVELS == <<
    [level |-> 1,  title |-> "Campsite",         minXP |-> 0],
    [level |-> 2,  title |-> "Gathering",        minXP |-> 100],
    [level |-> 3,  title |-> "Meeting Place",    minXP |-> 500],
    [level |-> 4,  title |-> "Town Square",      minXP |-> 1500],
    [level |-> 5,  title |-> "Trading Post",     minXP |-> 4000],
    [level |-> 6,  title |-> "Hub",              minXP |-> 10000],
    [level |-> 7,  title |-> "Grand Plaza",      minXP |-> 25000],
    [level |-> 8,  title |-> "Cultural Center",  minXP |-> 60000],
    [level |-> 9,  title |-> "Sacred Circle",    minXP |-> 140000],
    [level |-> 10, title |-> "Heart of Village", minXP |-> 300000] >>

BuildingTable(buildingId) ==
    IF buildingId = "campfire" THEN CAMPFIRE_LEVELS ELSE BUILDING_LEVELS

getBuildingLevel(xp, buildingId) ==
    LevelFrom(BuildingTable(buildingId), xp, Len(BuildingTable(buildingId)))

getBuildingNextLevel(xp, buildingId) ==
    NextLevelFrom(BuildingTable(buildingId), xp, 1)

calculateBuildingXP(profile) ==
    LET bytes == profile.totalInputBytes + profile.totalOutputBytes
    IN  profile.toolCalls + (bytes \div BUILDING_BYTES_PER_XP) + profile.totalVisits

NewBuilding ==
    [ toolCalls        |-> 0,
      totalInputBytes  |-> 0,
      totalOutputBytes |-> 0,
      uniqueVisitors   |-> <<>>,
      totalVisits      |-> 0 ]

\* getProfile(buildingId): the store after the call (created when missing)
getBuildingProfile(bs, buildingId) ==
    IF buildingId \in DOMAIN bs THEN bs ELSE bs @@ (buildingId :> NewBuilding)

\* recordActivity(buildingId, toolCalls, inputBytes, outputBytes)
recordBuildingActivity(bs, buildingId, toolCalls, inputBytes, outputBytes) ==
    [getBuildingProfile(bs, buildingId) EXCEPT
        ![buildingId].toolCalls        = @ + toolCalls,
        ![buildingId].totalInputBytes  = JsAdd(@, inputBytes),
        ![buildingId].totalOutputBytes = JsAdd(@, outputBytes)]

Includes(seq, x) == \E i \in 1..Len(seq) : seq[i] = x

\* recordVisit(buildingId, agentId)
recordBuildingVisit(bs, buildingId, agentId) ==
    [getBuildingProfile(bs, buildingId) EXCEPT
        ![buildingId].totalVisits    = @ + 1,
        ![buildingId].uniqueVisitors =
            IF Includes(@, agentId) THEN @ ELSE Append(@, agentId)]

getEnrichedBuilding(bs, buildingId) ==
    IF buildingId \notin DOMAIN bs THEN NoEnriched
    ELSE LET profile == bs[buildingId]
             xp      == calculateBuildingXP(profile)
         IN  [ exists           |-> TRUE,
               buildingId       |-> buildingId,
               toolCalls        |-> profile.toolCalls,
               totalInputBytes  |-> profile.totalInputBytes,
               totalOutputBytes |-> profile.totalOutputBytes,
               uniqueVisitors   |-> Len(profile.uniqueVisitors),
               totalVisits      |-> profile.totalVisits,
               xp               |-> xp,
               level            |-> getBuildingLevel(xp, buildingId).level,
               title            |-> getBuildingLevel(xp, buildingId).title,
               nextLevelXP      |-> getBuildingNextLevel(xp, buildingId).minXP ]

---------------------------------------------------------------------------
(* bridge.mjs helpers *)

\* ACTIVITY_BUILDING[activity] || 'campfire'.  ACTIVITY_BUILDING is a plain
\* object, so a key inherited from Object.prototype is found as well and the
\* inherited value (a function) becomes the building key, as its source text.
ObjectPrototypeKeys == {"constructor", "toString", "valueOf", "hasOwnProperty"}

TargetBuilding(activity) ==
    CASE activity = "planning"    -> "guild"
      [] activity = "coding"      -> "forge"
      [] activity = "testing"     -> "arena"
      [] activity = "researching" -> "library"
      [] activity = "reviewing"   -> "tower"
      [] activity = "idle"        -> "campfire"
      [] activity \in ObjectPrototypeKeys -> "function:" \o activity
      [] OTHER                    -> "campfire"

\* updateBuildingXP(buildingId): the new buildingPrevLevels and the events
\* it broadcasts, given the building store bs
updateBuildingXP(bs, prevLevels, buildingId) ==
    LET bp == getEnrichedBuilding(bs, buildingId) IN
    IF ~bp.exists THEN [prevLevels |-> prevLevels, events |-> <<>>]
    ELSE [ prevLevels |-> [b \in DOMAIN prevLevels \cup {buildingId} |->
                             IF b = buildingId THEN bp.level ELSE prevLevels[b]],
           events |-> << [ type           |-> "building:xp",
                           buildingId     |-> buildingId,
                           level          |-> bp.level,
                           xp             |-> bp.xp,
                           toolCalls      |-> bp.toolCalls,
                           uniqueVisitors |-> bp.uniqueVisitors ] >> ]

\* JSON values of the numeric request fields
JNum(n)  == [t |-> "num", v |-> n]
JAbsent  == [t |-> "absent", v |-> 0]
JGarbage == [t |-> "str", v |-> 0]         \* a string that holds no number
JHuge    == [t |-> "huge", v |-> 0]        \* a string of more than 309 digits

\* parseInt(x) || 0
ParseIntOr0(j) == IF j.t = "num" THEN j.v ELSE IF j.t = "huge" THEN Infinity ELSE 0

MILESTONES == {100, 500, 1000, 2500, 5000, 10000}

---------------------------------------------------------------------------
(* Name allocator (dwarfNames.mjs) *)

PREFIXES == <<
    "Grim",  "Stein", "Brok",  "Thar",  "Dun",
    "Gor",   "Hald",  "Krag",  "Vorn",  "Drak",
    "Mund",  "Narg",  "Bald",  "Ruk",   "Gund",
    "Thur",  "Dolg",  "Svar",  "Arn",   "Bran",
    "Hjal",  "Ragn",  "Fjol",  "Skjal", "Brund",
    "Vald",  "Hrod",  "Grond", "Durak", "Tholg" >>

SUFFIXES == <<
    "in",   "dur",  "rik",   "mund",  "born",
    "gar",  "nar",  "rok",   "mir",   "din",
    "bor",  "grim", "mar",   "vir",   "thak",
    "drin", "gor",  "vald",  "stein", "brak",
    "nir",  "thar", "gruk",  "mord",  "rad" >>

\* str.charCodeAt(i), for the characters an agentId can hold here
CharCode(c) ==
    CASE c = "-" -> 45
      [] c = "0" -> 48  [] c = "1" -> 49  [] c = "2" -> 50  [] c = "3" -> 51
      [] c = "4" -> 52  [] c = "5" -> 53  [] c = "6" -> 54  [] c = "7" -> 55
      [] c = "8" -> 56  [] c = "9" -> 57
      [] c = "a" -> 97  [] c = "b" -> 98  [] c = "c" -> 99  [] c = "d" -> 100
      [] c = "e" -> 101 [] c = "g" -> 103 [] c = "k" -> 107 [] c = "n" -> 110
      [] c = "o" -> 111 [] c = "p" -> 112 [] c = "t" -> 116 [] c = "u" -> 117
      [] c = "w" -> 119

\* A 32-bit unsigned h is kept as its two 16-bit halves, h = hi * 2^16 + lo.
Half == 65536

RECURSIVE HashFrom(_, _, _)
\* h = ((h << 5) + h + str.charCodeAt(i)) >>> 0, i.e. (33 * h + code) mod 2^32
HashFrom(str, i, h) ==
    IF i > Len(str) THEN h
    ELSE LET lo == 33 * h.lo + CharCode(str[i])
             hi == 33 * h.hi + (lo \div Half)
         IN  HashFrom(str, i + 1, [hi |-> hi % Half, lo |-> lo % Half])

\* 5381 = 0 * 2^16 + 5381
hashStr(str) == HashFrom(str, 1, [hi |-> 0, lo |-> 5381])

\* h % PREFIXES.length, from the halves (2^16 mod n = Half % n)
HashMod(h, n) == ((h.hi % n) * (Half % n) + (h.lo % n)) % n

\* h >>> 8, below 2^24
HashShift8(h) == h.hi * 256 + (h.lo \div 256)

DwarfName(pi, si) == PREFIXES[pi + 1] \o SUFFIXES[si + 1]

\* Mutant of Probe: the name the hash selects is taken whether used or not
FirstChoice(used, pi, si, attempts) == DwarfName(pi, si)

RECURSIVE Probe(_, _, _, _)
\* while (usedNames.has(name) && attempts < maxAttempts) { step si, then pi }
Probe(used, pi, si, attempts) ==
    IF DwarfName(pi, si) \in used /\ attempts < Len(PREFIXES) * Len(SUFFIXES)
    THEN LET si1 == (si + 1) % Len(SUFFIXES)
             pi1 == IF si1 = 0 THEN (pi + 1) % Len(PREFIXES) ELSE pi
         IN  Probe(used, pi1, si1, attempts + 1)
    ELSE DwarfName(pi, si)

\* getDwarfName(agentId): the name, and `assigned` / `usedNames` after the call.
\* names is [assigned |-> agentId -> name, usedNames |-> set of names].
getDwarfName(names, agentId) ==
    IF agentId \in DOMAIN names.assigned
    THEN [name |-> names.assigned[agentId], names |-> names]
    ELSE LET h    == hashStr(agentId)
             name == Probe(names.usedNames, HashMod(h, Len(PREFIXES)),
                           HashShift8(h) % Len(SUFFIXES), 0)
         IN  [ name  |-> name,
               names |-> [ assigned  |-> names.assigned @@ (agentId :> name),
                           usedNames |-> names.usedNames \cup {name} ] ]

\* releaseName(agentId)
releaseName(names, agentId) ==
    IF agentId \in DOMAIN names.assigned
    THEN [ assigned  |-> [a \in DOMAIN names.assigned \ {agentId} |-> names.assigned[a]],
           usedNames |-> names.usedNames \ {names.assigned[agentId]} ]
    ELSE names

---------------------------------------------------------------------------
(* Requests *)

\* JSON body of a heartbeat.  <<>> / "" / Null / JAbsent / "undefined": the
\* field is absent.
Beat(agent, activity, detail, inputBytes, outputBytes, busy, waiting, parentAgent, newSpawn) ==
    [ agent |-> agent, activity |-> activity, detail |-> detail,
      inputBytes |-> inputBytes, outputBytes |-> outputBytes,
      busy |-> busy, waiting |-> waiting,
      parentAgent |-> parentAgent, newSpawn |-> newSpawn ]

ParentLabel == <<"P"," ","a">>
ChildLabel  == <<"C","1">>

\* Heartbeats of the village run: a parent agent reporting activities and
\* byte counts (of either sign), and a sub-agent announced with its parent
ByteFields == { <<JAbsent, JAbsent>>, <<JNum(5000), JAbsent>>,
                <<JNum(-5000), JNum(5000)>>, <<JGarbage, JNum(0)>> }

VillageBeats ==
    { Beat(ParentLabel, act, "", b[1], b[2], "undefined", FALSE, <<>>, FALSE) :
        act \in {Null, "idle", "coding"}, b \in ByteFields }
    \cup
    { Beat(ChildLabel, act, "", JAbsent, JAbsent, "undefined", FALSE, ParentLabel, ns) :
        act \in {Null, "coding"}, ns \in BOOLEAN }

\* Heartbeats of one agent's session: every activity, detail and waiting
\* flag, alone or with byte counts and the busy flag
SessionBeats ==
    { Beat(ParentLabel, act, det, x[1], JAbsent, x[2], w, <<>>, FALSE) :
        act \in {Null, "idle", "coding", "testing"},
        det \in {"", "d1", "d2"},
        w   \in BOOLEAN,
        x   \in { <<JAbsent, "undefined">>, <<JNum(5000), "true">> } }

AgentIds == { NormalizeId(ParentLabel), NormalizeId(ChildLabel) }

\* JSON body of a raw event
Event(type, agentId, agentName, activity, detail, parentId) ==
    [ type |-> type, agentId |-> agentId, agentName |-> agentName,
      activity |-> activity, detail |-> detail, parentId |-> parentId ]

VillageEvents ==
    { Event(t, NormalizeId(ParentLabel), Null, Null, "", Null) :
        t \in {"agent:spawn", "agent:despawn", "agent:failure", "agent:complete"} }
    \cup
    { Event("agent:work", NormalizeId(ParentLabel), Null, "testing", "d1", Null),
      Event("agent:despawn", NormalizeId(ChildLabel), Null, Null, "", Null) }

SessionEvents ==
    { Event("agent:spawn", NormalizeId(ParentLabel), Null, Null, "", Null),
      Event("agent:work", NormalizeId(ParentLabel), Null, "reviewing", "", Null) }

RECURSIVE Str(_)
\* the string a sequence of characters spells
Str(chars) == IF chars = <<>> THEN "" ELSE Head(chars) \o Str(Tail(chars))

Remove(seq, x) == SelectSeq(seq, LAMBDA y : y # x)

\* Map.set(key, ...): a new key goes last, a present key keeps its place
MapSetOrder(order, key) == IF Includes(order, key) THEN order ELSE Append(order, key)

Without(f, key) == [k \in DOMAIN f \ {key} |-> f[k]]

NoSession == [none |-> TRUE]
NoProfile == [none |-> TRUE]

JsBool(b) == IF b THEN "true" ELSE "false"

\* Op applied to x when cond holds, x itself otherwise (a guarded update)
When(cond, Op(_), x) == IF cond THEN Op(x) ELSE x

\* Object.entries / Object.keys order: string keys in insertion order.  A
\* handler adds at most one key to an object, which goes last.
ObjectKeys(order, obj) ==
    IF \A k \in DOMAIN obj : Includes(order, k) THEN order
    ELSE Append(order, CHOOSE k \in DOMAIN obj : ~Includes(order, k))

\* The key orders a JSON file can give the object that holds the keys S
Orderings(S) ==
    { o \in [1..Cardinality(S) -> S] : \A i, j \in DOMAIN o : i # j => o[i] # o[j] }

\* Mutant of broadcast: the events reach no dashboard
BroadcastToNobody(clients, events) == [c \in clients |-> <<>>]

\* broadcast(event), for the events of one handler run: every connected
\* dashboard is written each event, in order
broadcast(clients, events) == [c \in clients |-> events]

---------------------------------------------------------------------------
(* POST /api/heartbeat *)

\* The fields the handler reads off the parsed body
Parsed(data) ==
    LET rawName == IF data.agent # <<>> THEN data.agent ELSE UnknownAgent IN
    [ rawName     |-> rawName,
      agentId     |-> NormalizeId(rawName),
      activity    |-> IF data.activity \in {Null, ""} THEN Null ELSE data.activity,
      detail      |-> data.detail,
      inputBytes  |-> ParseIntOr0(data.inputBytes),
      outputBytes |-> ParseIntOr0(data.outputBytes),
      parentId    |-> IF data.parentAgent # <<>> THEN NormalizeId(data.parentAgent)
                      ELSE Null ]

SpawnEvent(agentId, dwarfName, rawName, enriched, totalInputBytes, totalOutputBytes, parentId) ==
    [ type             |-> "agent:spawn",
      agentId          |-> agentId,
      agentName        |-> dwarfName,
      agentRole        |-> rawName,
      level            |-> LevelOr1(enriched),
      xp               |-> IF enriched.exists THEN enriched.xp ELSE 0,
      totalInputBytes  |-> totalInputBytes,
      totalOutputBytes |-> totalOutputBytes,
      subAgentsSpawned |-> IF enriched.exists THEN enriched.subAgentsSpawned ELSE 0,
      parentId         |-> parentId ]

WorkEvent(agentId, activity, detail, targetBuilding) ==
    [ type           |-> "agent:work",
      agentId        |-> agentId,
      activity       |-> activity,
      detail         |-> detail,
      targetBuilding |-> targetBuilding ]

\* Mutant of SpawnBroadcasts: the work event is sent before the spawn
WorkBeforeSpawn(spawnEvent, buildingEvents, workEvent) ==
    <<workEvent>> \o buildingEvents \o <<spawnEvent>>

\* The events the spawn path broadcasts, in order
SpawnBroadcasts(spawnEvent, buildingEvents, workEvent) ==
    <<spawnEvent>> \o buildingEvents \o <<workEvent>>

\* if (!existing) { ... }: the handler's effect for an agent that is not live
SpawnPath(data) ==
    LET p             == Parsed(data)
        agentId       == p.agentId
        storedName    == getStoredName(store, agentId)
        named         == IF storedName # Null /\ storedName # ""
                         THEN [name |-> storedName,
                               names |-> [assigned |-> assigned, usedNames |-> usedNames]]
                         ELSE getDwarfName([assigned |-> assigned,
                                            usedNames |-> usedNames], agentId)
        dwarfName     == named.name
        isSubAgent    == p.parentId # Null
        spawnActivity == IF p.activity # Null THEN p.activity ELSE "idle"
        hasBytes      == p.inputBytes # 0 \/ p.outputBytes # 0
        st1 == getProfile(store, agentId, dwarfName, p.parentId)
        st2 == recordSession(st1, agentId)
        st3 == When(spawnActivity # "idle", LAMBDA s : recordToolUse(s, agentId), st2)
        st4 == When(hasBytes,
                    LAMBDA s : recordBytes(s, agentId, p.inputBytes, p.outputBytes), st3)
        st5 == When(isSubAgent, LAMBDA s : recordSubAgentSpawn(s, p.parentId), st4)
        enriched        == getEnrichedProfile(st5, agentId)
        histInputBytes  == IF enriched.exists THEN enriched.totalInputBytes ELSE 0
        histOutputBytes == IF enriched.exists THEN enriched.totalOutputBytes ELSE 0
        session == [ name             |-> dwarfName,
                     role             |-> p.rawName,
                     activity         |-> spawnActivity,
                     detail           |-> p.detail,
                     busy             |-> JsBool(data.busy = "true"),
                     waiting          |-> JsBool(data.waiting),
                     totalInputBytes  |-> histInputBytes + p.inputBytes,
                     totalOutputBytes |-> histOutputBytes + p.outputBytes,
                     lastSeen         |-> now,
                     parentId         |-> p.parentId ]
        spawnEvent == SpawnEvent(agentId, dwarfName, p.rawName, enriched,
                                 histInputBytes + p.inputBytes,
                                 histOutputBytes + p.outputBytes, p.parentId)
        st6 == When(spawnActivity # "idle",
                    LAMBDA s : recordActivity(s, agentId, spawnActivity, p.detail), st5)
        spawnBuilding == TargetBuilding(spawnActivity)
        bs1 == recordBuildingVisit(buildings, spawnBuilding, agentId)
        bs2 == When(spawnActivity # "idle",
                    LAMBDA b : recordBuildingActivity(b, spawnBuilding, 1, p.inputBytes,
                                                      p.outputBytes), bs1)
        upd == updateBuildingXP(bs2, buildingPrevLevels, spawnBuilding)
    IN  [ agents     |-> (agentId :> session) @@ agents,
          agentOrder |-> MapSetOrder(agentOrder, agentId),
          store      |-> st6,
          buildings  |-> bs2,
          prevLevels |-> upd.prevLevels,
          names      |-> named.names,
          events     |-> SpawnBroadcasts(spawnEvent, upd.events,
                             WorkEvent(agentId, spawnActivity, p.detail, spawnBuilding)),
          achieved   |-> <<>> ]

\* Mutant of activityChanged: the null check is missing
NullActivityChanges(activity, existing) ==
    existing.activity # activity

\* const activityChanged = activity !== null && existing.activity !== activity
activityChanged(activity, existing) ==
    activity # Null /\ existing.activity # activity

\* Mutant of detailChanged: the detail is not compared with the stored one
AnyDetailChanges(detail, existing) ==
    detail # ""

\* const detailChanged = detail && existing.detail !== detail
detailChanged(detail, existing) ==
    detail # "" /\ existing.detail # detail

\* Mutant of NextWaiting: an idle activity clears the flag as well
ClearedByAnyActivity(dataWaiting, activity, wasWaiting) ==
    IF dataWaiting THEN "true"
    ELSE IF activity # Null THEN "false"
    ELSE wasWaiting

\* if (data.waiting) existing.waiting = true;
\* else if (activity && activity !== 'idle') existing.waiting = false;
NextWaiting(dataWaiting, activity, wasWaiting) ==
    IF dataWaiting THEN "true"
    ELSE IF activity # Null /\ activity # "idle" THEN "false"
    ELSE wasWaiting

\* milestones.includes(tc)
MilestoneReached(tc) == tc \in MILESTONES

AchievementEvent(agentId, name, tc) ==
    [ type |-> "agent:achievement", agentId |-> agentId, agentName |-> name,
      toolCalls |-> tc ]

\* Mutant of AchievementBroadcasts: the check runs on every heartbeat
AchievementOnEveryBeat(isTool, updatedProfile, agentId, name) ==
    IF updatedProfile.exists /\ MilestoneReached(updatedProfile.toolCalls)
    THEN << AchievementEvent(agentId, name, updatedProfile.toolCalls) >>
    ELSE <<>>

\* Inside `if (activity && activity !== 'idle')`, after recordToolUse:
\* if (updatedProfile) { if (milestones.includes(tc)) broadcast(achievement) }
AchievementBroadcasts(isTool, updatedProfile, agentId, name) ==
    IF isTool /\ updatedProfile.exists /\ MilestoneReached(updatedProfile.toolCalls)
    THEN << AchievementEvent(agentId, name, updatedProfile.toolCalls) >>
    ELSE <<>>

\* if (existing.waiting !== wasWaiting) broadcast({type: 'agent:waiting', ...})
WaitingBroadcasts(agentId, waiting, wasWaiting) ==
    IF waiting # wasWaiting
    THEN << [type |-> "agent:waiting", agentId |-> agentId, waiting |-> waiting] >>
    ELSE <<>>

\* if (activityChanged || detailChanged) broadcast({type: 'agent:work', ...})
WorkBroadcasts(agentId, actChanged, detChanged, effectiveActivity, detail) ==
    IF actChanged \/ detChanged
    THEN << WorkEvent(agentId, effectiveActivity, detail,
                      TargetBuilding(effectiveActivity)) >>
    ELSE <<>>

\* else { ... }: the handler's effect for an agent that is live
UpdatePath(data) ==
    LET p        == Parsed(data)
        agentId  == p.agentId
        existing == agents[agentId]
        reSpawn  == data.newSpawn /\ p.parentId # Null
        st1 == When(reSpawn,
                    LAMBDA s : recordSession(recordSubAgentSpawn(s, p.parentId), agentId),
                    store)
        effectiveActivity == IF p.activity # Null THEN p.activity ELSE existing.activity
        actChanged == activityChanged(p.activity, existing)
        detChanged == detailChanged(p.detail, existing)
        wasWaiting == existing.waiting
        waiting    == NextWaiting(data.waiting, p.activity, wasWaiting)
        hasBytes   == p.inputBytes # 0 \/ p.outputBytes # 0
        isTool     == p.activity # Null /\ p.activity # "idle"
        newDetail  == IF p.detail # "" THEN p.detail ELSE existing.detail
        session == [ existing EXCEPT
                       !.parentId = IF reSpawn THEN p.parentId ELSE @,
                       !.activity = IF p.activity # Null THEN p.activity ELSE @,
                       !.detail   = newDetail,
                       !.busy     = IF data.busy # "undefined"
                                    THEN JsBool(data.busy = "true") ELSE @,
                       !.lastSeen = now,
                       !.waiting  = waiting,
                       !.totalInputBytes  = IF hasBytes THEN @ + p.inputBytes ELSE @,
                       !.totalOutputBytes = IF hasBytes THEN @ + p.outputBytes ELSE @ ]
        prevEnriched == getEnrichedProfile(st1, agentId)
        prevLevel    == LevelOr1(prevEnriched)
        \* if (inputBytes || outputBytes) { ... }
        st2 == When(hasBytes,
                    LAMBDA s : recordBytes(s, agentId, p.inputBytes, p.outputBytes), st1)
        tokens == IF hasBytes
                  THEN << [ type             |-> "agent:tokens",
                            agentId          |-> agentId,
                            totalInputBytes  |-> session.totalInputBytes,
                            totalOutputBytes |-> session.totalOutputBytes ] >>
                  ELSE <<>>
        bytesBuilding == TargetBuilding(effectiveActivity)
        bs1  == When(hasBytes,
                     LAMBDA b : recordBuildingActivity(b, bytesBuilding, 0, p.inputBytes,
                                                       p.outputBytes), buildings)
        upd1 == IF hasBytes THEN updateBuildingXP(bs1, buildingPrevLevels, bytesBuilding)
                ELSE [prevLevels |-> buildingPrevLevels, events |-> <<>>]
        \* if (activity && activity !== 'idle') { ... }
        st3 == When(isTool, LAMBDA s : recordToolUse(s, agentId), st2)
        toolBuilding == TargetBuilding(p.activity)
        bs2  == When(isTool,
                     LAMBDA b : recordBuildingVisit(
                                    recordBuildingActivity(b, toolBuilding, 1, 0, 0),
                                    toolBuilding, agentId), bs1)
        upd2 == IF isTool THEN updateBuildingXP(bs2, upd1.prevLevels, toolBuilding)
                ELSE [prevLevels |-> upd1.prevLevels, events |-> <<>>]
        updatedProfile == getEnrichedProfile(st3, agentId)
        achievement == AchievementBroadcasts(isTool, updatedProfile, agentId,
                                             existing.name)
        \* Broadcast XP update (every heartbeat)
        newEnriched == getEnrichedProfile(st3, agentId)
        xpEvents == IF newEnriched.exists
                    THEN << [ type    |-> "agent:xp",
                              agentId |-> agentId,
                              level   |-> newEnriched.level,
                              xp      |-> newEnriched.xp ] >>
                    ELSE <<>>
        st4 == When((actChanged \/ detChanged) /\ actChanged /\ effectiveActivity # "idle",
                    LAMBDA s : recordActivity(s, agentId, effectiveActivity, newDetail),
                    st3)
    IN  [ agents     |-> [agents EXCEPT ![agentId] = session],
          agentOrder |-> agentOrder,
          store      |-> st4,
          buildings  |-> bs2,
          prevLevels |-> upd2.prevLevels,
          names      |-> [assigned |-> assigned, usedNames |-> usedNames],
          events     |-> tokens \o upd1.events \o upd2.events \o achievement \o xpEvents
                         \o WorkBroadcasts(agentId, actChanged, detChanged,
                                           effectiveActivity, newDetail)
                         \o WaitingBroadcasts(agentId, waiting, wasWaiting),
          achieved   |-> [i \in 1..Len(achievement) |->
                             <<achievement[i].agentId, achievement[i].toolCalls>>] ]

\* Mutant of HeartbeatEffect: the registry is not consulted
AlwaysSpawn(data) == SpawnPath(data)

\* const existing = agents.get(agentId); if (!existing) ... else ...
HeartbeatEffect(data) ==
    IF Parsed(data).agentId \notin DOMAIN agents THEN SpawnPath(data)
    ELSE UpdatePath(data)

---------------------------------------------------------------------------
(* POST /api/event *)

RawSession(event) ==
    [ name             |-> IF event.agentName # Null THEN event.agentName
                           ELSE Str(event.agentId),
      role             |-> <<>>,          \* not set by the raw spawn
      activity         |-> "idle",
      detail           |-> "",
      busy             |-> "false",
      waiting          |-> "undefined",   \* not set by the raw spawn
      totalInputBytes  |-> 0,             \* not set; every read is `|| 0`
      totalOutputBytes |-> 0,
      lastSeen         |-> now,
      parentId         |-> event.parentId ]

\* Mutant of EventEffect: an event for an agent that is not live creates its
\* session
EventCreatesSession(event) ==
    [ agents     |-> IF event.type = "agent:despawn" THEN Without(agents, event.agentId)
                     ELSE (event.agentId :> RawSession(event)) @@ agents,
      agentOrder |-> IF event.type = "agent:despawn" THEN Remove(agentOrder, event.agentId)
                     ELSE MapSetOrder(agentOrder, event.agentId),
      names      |-> [assigned |-> assigned, usedNames |-> usedNames] ]

\* The registry (and the name allocator) after the raw event
EventEffect(event) ==
    LET id    == event.agentId
        names == [assigned |-> assigned, usedNames |-> usedNames]
        same  == [agents |-> agents, agentOrder |-> agentOrder, names |-> names]
    IN  CASE event.type = "agent:spawn" ->
               [ agents     |-> (id :> RawSession(event)) @@ agents,
                 agentOrder |-> MapSetOrder(agentOrder, id),
                 names      |-> names ]
          [] event.type = "agent:despawn" ->
               [ agents     |-> Without(agents, id),
                 agentOrder |-> Remove(agentOrder, id),
                 names      |-> releaseName(names, id) ]
          [] event.type = "agent:work" /\ id \in DOMAIN agents ->
               [ same EXCEPT !.agents =
                   [agents EXCEPT ![id].activity =
                                      IF event.activity # Null THEN event.activity ELSE @,
                                  ![id].detail =
                                      IF event.detail # "" THEN event.detail ELSE @,
                                  ![id].lastSeen = now] ]
          [] event.type = "agent:failure" /\ id \in DOMAIN agents ->
               [ same EXCEPT !.agents = [agents EXCEPT ![id].lastSeen = now] ]
          [] OTHER -> same

---------------------------------------------------------------------------
(* Auto-despawn timer *)

\* Mutant of TimedOut: the comparison is not strict
TimedOutAtThreshold(session, t) == t - session.lastSeen >= DESPAWN_TIMEOUT

\* now - agent.lastSeen > DESPAWN_TIMEOUT
TimedOut(session, t) == t - session.lastSeen > DESPAWN_TIMEOUT

\* The live agents the callback removes at time t, in Map order
Expired(t) == SelectSeq(agentOrder, LAMBDA id : TimedOut(agents[id], t))

RECURSIVE ReleaseAll(_, _)
ReleaseAll(names, ids) ==
    IF ids = <<>> THEN names ELSE ReleaseAll(releaseName(names, Head(ids)), Tail(ids))

names_after(gone) ==
    ReleaseAll([assigned |-> assigned, usedNames |-> usedNames], gone)

DespawnEvent(agentId) == [type |-> "agent:despawn", agentId |-> agentId]

---------------------------------------------------------------------------
(* The state machine *)

NoData == [none |-> TRUE]

\* store.agents as loaded from agents.json at startup: no file, or the
\* profile an earlier run left for one agent
StoredProfile(agentId, toolCalls) ==
    [ NewProfile(getDwarfName([assigned |-> <<>>, usedNames |-> {}], agentId).name, Null)
        EXCEPT !.toolCalls = toolCalls, !.sessions = 1 ]

StoredAt(toolCalls) ==
    NormalizeId(ParentLabel) :> StoredProfile(NormalizeId(ParentLabel), toolCalls)

---------------------------------------------------------------------------
(* Persistence of the two stores (agentStore.mjs, buildingStore.mjs) *)

Stores == {"agents", "buildings"}

\* The number fields of a profile of each store
NumberFields(s) ==
    IF s = "agents"
    THEN {"toolCalls", "totalInputBytes", "totalOutputBytes", "totalBytes",
          "sessions", "subAgentsSpawned"}
    ELSE {"toolCalls", "totalInputBytes", "totalOutputBytes", "totalVisits"}

JNull == [t |-> "null", v |-> 0]

\* JSON.stringify of a number: a number that is not finite is written null
JsonNumber(n) == IF n \in {Infinity, NullNumber} THEN JNull ELSE JNum(n)

\* JSON.parse of a number field
NumberOf(j) == IF j.t = "num" THEN j.v ELSE NullNumber

\* JSON.stringify of a field that holds an agent id or null
JsonId(x) == IF x = Null THEN [t |-> "null", v |-> <<>>] ELSE [t |-> "str", v |-> x]

\* JSON.parse of such a field
IdOf(j) == IF j.t = "null" THEN Null ELSE j.v

\* JSON.stringify(store, null, 2): the text written for the store st
stringify(s, st) ==
    [id \in DOMAIN st |->
        [f \in DOMAIN st[id] |->
            IF f \in NumberFields(s) THEN JsonNumber(st[id][f])
            ELSE IF f = "parentId" THEN JsonId(st[id][f])
            ELSE st[id][f]]]

\* JSON.parse of a complete text
parse(s, text) ==
    [id \in DOMAIN text |->
        [f \in DOMAIN text[id] |->
            IF f \in NumberFields(s) THEN NumberOf(text[id][f])
            ELSE IF f = "parentId" THEN IdOf(text[id][f])
            ELSE text[id][f]]]

\* What a path of the file system holds
NoFile         == [state |-> "absent",   text |-> <<>>]
Partial        == [state |-> "partial",  text |-> <<>>]
Complete(text) == [state |-> "complete", text |-> text]

\* The store read at startup: existsSync, readFileSync and JSON.parse of the
\* canonical path; a text that does not parse leaves the store fresh
load(s, file) == IF file.state = "complete" THEN parse(s, file.text) ELSE <<>>

\* A save that writes the canonical path itself
saveInPlace(s) ==
    << [op |-> "open",  store |-> s, path |-> "file"],
       [op |-> "write", store |-> s, path |-> "file"] >>

\* save(): the steps of one save of store s, in order. Only the temporary
\* path is written; renameSync puts it in the place of the canonical one.
save(s) ==
    << [op |-> "open",   store |-> s, path |-> "tmp"],
       [op |-> "write",  store |-> s, path |-> "tmp"],
       [op |-> "rename", store |-> s, path |-> "tmp"] >>

\* The timer callback of debouncedSave: save(); saveTimer = null
timerCallback(s) == save(s) \o << [op |-> "clear", store |-> s, path |-> "tmp"] >>

\* process.on('exit', save) of the two stores, in the order they are
\* registered, then the end of the process
exitListeners ==
    save("agents") \o save("buildings")
        \o << [op |-> "exit", store |-> "agents", path |-> "tmp"] >>

\* What ends the process in an orderly way, and the steps it runs: the first
\* SIGINT / SIGTERM listener is agentStore's, save(); process.exit()
Terminations == {"exit", "SIGINT", "SIGTERM"}

terminate(cause) ==
    IF cause = "exit" THEN exitListeners ELSE save("agents") \o exitListeners

\* The files an earlier run left for the stores st and bs, with a process
\* that has just loaded them
FileOf(s, st) == IF st = <<>> THEN NoFile ELSE Complete(stringify(s, st))

DiskHolding(st, bs) ==
    [ up    |-> TRUE,
      writable |-> TRUE,
      pc    |-> <<>>,
      timer |-> [s \in Stores |-> FALSE],
      file  |-> [s \in Stores |-> IF s = "agents" THEN FileOf(s, st) ELSE FileOf(s, bs)],
      tmp   |-> [s \in Stores |-> NoFile],
      saved |-> [s \in Stores |->
                   IF s = "agents" THEN {stringify(s, st)} ELSE {stringify(s, bs)}] ]

Fresh(st) ==
    /\ agents = <<>>
    /\ agentOrder = <<>>
    /\ store \in st
    /\ buildings = <<>>
    /\ buildingPrevLevels = <<>>
    /\ assigned = <<>>
    /\ usedNames = {}
    /\ now = 0
    /\ sweeps = 0
    /\ inflight = [heartbeat |-> 0, event |-> 0]
    /\ requests = 0
    /\ emitted = <<>>
    /\ last = [kind |-> "init", agentId |-> <<>>, data |-> NoData,
               existing |-> NoSession, profile |-> NoProfile]
    /\ disk = DiskHolding(store, <<>>)
    /\ achieved = <<>>
    /\ storeOrder \in Orderings(DOMAIN store)
    /\ buildingOrder = <<>>
    /\ sseClients = {}
    /\ written = <<>>

\* The village at startup: no agents.json, or one whose agent is one tool
\* call short of the first milestone
Init == Fresh({ <<>>, StoredAt(99) })

\* A single session: the stored agent is one XP short of level 2
InitSession == Fresh({ StoredAt(49) })

\* A request reaches the server; the handler awaits its body (readBody)
Arrive(endpoint, max) ==
    /\ requests < max
    /\ inflight.heartbeat + inflight.event < MaxInflight
    /\ inflight' = [inflight EXCEPT ![endpoint] = @ + 1]
    /\ requests' = requests + 1
    /\ emitted' = <<>>
    /\ last' = [kind |-> "arrive", agentId |-> <<>>, data |-> NoData,
                existing |-> NoSession, profile |-> NoProfile]
    /\ written' = broadcast(sseClients, <<>>)
    /\ UNCHANGED <<disk, agents, agentOrder, store, buildings, buildingPrevLevels,
                   assigned, usedNames, now, sweeps, achieved,
                   storeOrder, buildingOrder, sseClients>>

\* The body has been read and parsed: the rest of the handler runs to its end
Heartbeat(data) ==
    /\ inflight.heartbeat > 0
    /\ \E r \in {HeartbeatEffect(data)}, id \in {Parsed(data).agentId} :
           /\ agents' = r.agents
           /\ agentOrder' = r.agentOrder
           /\ store' = r.store
           /\ buildings' = r.buildings
           /\ buildingPrevLevels' = r.prevLevels
           /\ assigned' = r.names.assigned
           /\ usedNames' = r.names.usedNames
           /\ emitted' = r.events
           /\ written' = broadcast(sseClients, r.events)
           /\ storeOrder' = ObjectKeys(storeOrder, r.store)
           /\ buildingOrder' = ObjectKeys(buildingOrder, r.buildings)
           /\ achieved' = achieved \o r.achieved
           /\ last' = [ kind     |-> "heartbeat",
                        agentId  |-> id,
                        data     |-> data,
                        existing |-> IF id \in DOMAIN agents THEN agents[id] ELSE NoSession,
                        profile  |-> IF id \in DOMAIN store THEN store[id] ELSE NoProfile ]
    /\ inflight' = [inflight EXCEPT !.heartbeat = @ - 1]
    /\ UNCHANGED <<disk, now, sweeps, requests, sseClients>>

RawEvent(event) ==
    /\ inflight.event > 0
    /\ \E r \in {EventEffect(event)}, id \in {event.agentId} :
           /\ agents' = r.agents
           /\ agentOrder' = r.agentOrder
           /\ assigned' = r.names.assigned
           /\ usedNames' = r.names.usedNames
           /\ emitted' = <<event>>
           /\ written' = broadcast(sseClients, <<event>>)
           /\ last' = [ kind     |-> "event",
                        agentId  |-> id,
                        data     |-> event,
                        existing |-> IF id \in DOMAIN agents THEN agents[id] ELSE NoSession,
                        profile  |-> IF id \in DOMAIN store THEN store[id] ELSE NoProfile ]
    /\ inflight' = [inflight EXCEPT !.event = @ - 1]
    /\ UNCHANGED <<disk, store, buildings, buildingPrevLevels, now, sweeps, requests, achieved,
                   storeOrder, buildingOrder, sseClients>>

\* The body is not JSON, or reading it failed: the request is answered 400
Reject(endpoint) ==
    /\ inflight[endpoint] > 0
    /\ inflight' = [inflight EXCEPT ![endpoint] = @ - 1]
    /\ emitted' = <<>>
    /\ last' = [kind |-> "rejected", agentId |-> <<>>, data |-> NoData,
                existing |-> NoSession, profile |-> NoProfile]
    /\ written' = broadcast(sseClients, <<>>)
    /\ UNCHANGED <<disk, agents, agentOrder, store, buildings, buildingPrevLevels,
                   assigned, usedNames, now, sweeps, requests, achieved,
                   storeOrder, buildingOrder, sseClients>>

\* The setInterval callback fires; gap is the time since the previous step.
\* A gap of DESPAWN_TIMEOUT stands for the firings of an idle period, which
\* remove nothing that this firing does not remove.
SweepGaps == {SWEEP_INTERVAL, DESPAWN_TIMEOUT}

\* Mutant of SweepCallback: the sessions are removed without a broadcast
SilentSweep(t) ==
    /\ now' = t
    /\ LET gone == Expired(t)
           left == names_after(gone)
       IN  /\ agents' = [id \in {a \in DOMAIN agents : ~Includes(gone, a)} |-> agents[id]]
           /\ agentOrder' = SelectSeq(agentOrder, LAMBDA id : ~Includes(gone, id))
           /\ assigned' = left.assigned
           /\ usedNames' = left.usedNames
           /\ emitted' = <<>>
           /\ written' = broadcast(sseClients, <<>>)
    /\ last' = [kind |-> "sweep", agentId |-> <<>>, data |-> NoData,
                existing |-> NoSession, profile |-> NoProfile]
    /\ UNCHANGED <<disk, store, buildings, buildingPrevLevels, inflight, requests, achieved,
                   storeOrder, buildingOrder, sseClients>>

\* The callback body, run at time t
SweepCallback(t) ==
    /\ now' = t
    /\ LET gone == Expired(t)
           left == names_after(gone)
       IN  /\ agents' = [id \in {a \in DOMAIN agents : ~Includes(gone, a)} |-> agents[id]]
           /\ agentOrder' = SelectSeq(agentOrder, LAMBDA id : ~Includes(gone, id))
           /\ assigned' = left.assigned
           /\ usedNames' = left.usedNames
           /\ emitted' = [i \in 1..Len(gone) |-> DespawnEvent(gone[i])]
           /\ written' = broadcast(sseClients,
                                   [i \in 1..Len(gone) |-> DespawnEvent(gone[i])])
    /\ last' = [kind |-> "sweep", agentId |-> <<>>, data |-> NoData,
                existing |-> NoSession, profile |-> NoProfile]
    /\ UNCHANGED <<disk, store, buildings, buildingPrevLevels, inflight, requests, achieved,
                   storeOrder, buildingOrder, sseClients>>

Sweep(gap) ==
    /\ sweeps < MaxSweeps
    /\ sweeps' = sweeps + 1
    /\ SweepCallback(now + gap)

Next ==
    \/ \E endpoint \in {"heartbeat", "event"} : Arrive(endpoint, MaxRequests)
    \/ \E data \in VillageBeats : Heartbeat(data)
    \/ \E event \in VillageEvents : RawEvent(event)
    \/ \E endpoint \in {"heartbeat", "event"} : Reject(endpoint)
    \/ \E gap \in SweepGaps : Sweep(gap)

Spec == Init /\ [][Next]_vars

NextSession ==
    \/ \E endpoint \in {"heartbeat", "event"} : Arrive(endpoint, MaxBeats)
    \/ \E data \in SessionBeats : Heartbeat(data)
    \/ \E event \in SessionEvents : RawEvent(event)
    \/ \E endpoint \in {"heartbeat", "event"} : Reject(endpoint)

SpecSession == InitSession /\ [][NextSession]_vars

---------------------------------------------------------------------------
(* Properties *)

IsBeat  == last.kind = "heartbeat"
WasLive == last.existing # NoSession
BeatId  == last.agentId

\* the fields of the last heartbeat, as the handler read them
BeatActivity == Parsed(last.data).activity
BeatDetail   == Parsed(last.data).detail

\* the events of one type the last step broadcast for an agent
EventsOf(type, agentId) ==
    SelectSeq(emitted, LAMBDA e : e.type = type /\ e.agentId = agentId)

EventsOfType(type) == SelectSeq(emitted, LAMBDA e : e.type = type)

EventTypesEmitted == [i \in 1..Len(emitted) |-> emitted[i].type]

ToolCallsBefore == IF last.profile = NoProfile THEN 0 ELSE last.profile.toolCalls

LevelBefore ==
    IF last.profile = NoProfile THEN 1 ELSE getLevel(calculateXP(last.profile)).level

---------------------------------------------------------------------------
\* C1: a heartbeat for an agent that is not live creates its profile and its
\* session and broadcasts exactly one agent:spawn for it; a heartbeat for an
\* agent that is live broadcasts no agent:spawn, creates no profile and keeps
\* the session it found (same name and role).
C1_SpawnOnlyWhenNotLive ==
    IsBeat =>
        /\ BeatId \in DOMAIN agents
        /\ Len(EventsOfType("agent:spawn")) = Len(EventsOf("agent:spawn", BeatId))
        /\ ~WasLive =>
             /\ Len(EventsOf("agent:spawn", BeatId)) = 1
             /\ BeatId \in DOMAIN store
        /\ WasLive =>
             /\ Len(EventsOf("agent:spawn", BeatId)) = 0
             /\ (BeatId \in DOMAIN store) <=> (last.profile # NoProfile)
             /\ agents[BeatId].name = last.existing.name
             /\ agents[BeatId].role = last.existing.role

\* A second heartbeat for an agent that a heartbeat spawned has been processed
\* while a third request was still being read
C1_Witness ==
    /\ IsBeat /\ WasLive
    /\ last.existing.role # <<>>
    /\ inflight.heartbeat > 0
    /\ sweeps = 0

---------------------------------------------------------------------------
---------------------------------------------------------------------------
---------------------------------------------------------------------------
\* C4: for a live agent a heartbeat broadcasts agent:work (once, for that
\* agent) exactly when it names an activity other than the stored one or
\* carries a non-empty detail other than the stored one.
C4_WorkOnlyOnChange ==
    (IsBeat /\ WasLive) =>
        LET changed == \/ BeatActivity # Null /\ BeatActivity # last.existing.activity
                       \/ BeatDetail # "" /\ BeatDetail # last.existing.detail
        IN  /\ Len(EventsOfType("agent:work")) = (IF changed THEN 1 ELSE 0)
            /\ Len(EventsOf("agent:work", BeatId)) = (IF changed THEN 1 ELSE 0)

\* A heartbeat repeated the activity and the detail a live agent already had,
\* after an earlier heartbeat had done the same
C4_Witness ==
    /\ IsBeat /\ WasLive
    /\ requests = 3 /\ inflight.heartbeat = 0 /\ inflight.event = 0
    /\ BeatActivity = "coding" /\ BeatActivity = last.existing.activity
    /\ BeatDetail = "d1" /\ BeatDetail = last.existing.detail
    /\ store[BeatId].recentActivity =
         <<[activity |-> "coding", detail |-> "d1"]>>
    /\ store[BeatId].toolCalls = ToolCallsBefore + 1
    /\ ToolCallsBefore = 51
    /\ emitted # <<>>
    /\ Len(EventsOfType("agent:work")) = 0

---------------------------------------------------------------------------
\* C5, as claimed: no step lowers toolCalls, totalInputBytes,
\* totalOutputBytes, sessions or subAgentsSpawned of any profile, and no
\* profile is lost.
C5_AsClaimed ==
    [][ \A a \in DOMAIN store :
          /\ a \in DOMAIN store'
          /\ store'[a].toolCalls        >= store[a].toolCalls
          /\ store'[a].totalInputBytes  >= store[a].totalInputBytes
          /\ store'[a].totalOutputBytes >= store[a].totalOutputBytes
          /\ store'[a].sessions         >= store[a].sessions
          /\ store'[a].subAgentsSpawned >= store[a].subAgentsSpawned ]_vars

---------------------------------------------------------------------------
\* C6, as claimed: a heartbeat that raises the agent's toolCalls to a
\* milestone broadcasts exactly one agent:achievement, for that agent and
\* that milestone.
C6_AsClaimed ==
    (/\ IsBeat
     /\ BeatId \in DOMAIN store
     /\ store[BeatId].toolCalls > ToolCallsBefore
     /\ store[BeatId].toolCalls \in MILESTONES) =>
        /\ Len(EventsOfType("agent:achievement")) = 1
        /\ Len(EventsOf("agent:achievement", BeatId)) = 1
        /\ EventsOf("agent:achievement", BeatId)[1].toolCalls = store[BeatId].toolCalls

---------------------------------------------------------------------------
\* the highest milestone not above tc (0 below the first)
RECURSIVE MilestoneOf(_)
MilestoneOf(tc) ==
    IF tc <= 0 \/ tc \in MILESTONES THEN (IF tc <= 0 THEN 0 ELSE tc)
    ELSE MilestoneOf(tc - 1)

\* C7: over the whole run no agent gets two agent:achievement events for the
\* same milestone, and a heartbeat that does not raise the agent's toolCalls
\* broadcasts no agent:achievement.
C7_OneAchievementPerMilestone ==
    /\ \A i, j \in 1..Len(achieved) :
          (/\ achieved[i][1] = achieved[j][1]
           /\ MilestoneOf(achieved[i][2]) = MilestoneOf(achieved[j][2])) => i = j
    /\ (/\ IsBeat
        /\ BeatId \in DOMAIN store => store[BeatId].toolCalls <= ToolCallsBefore)
         => Len(EventsOfType("agent:achievement")) = 0

\* The agent got its achievement, timed out, and came back with a tool call
C7_Witness ==
    /\ Len(achieved) = 1
    /\ IsBeat /\ ~WasLive
    /\ BeatId = achieved[1][1]
    /\ store[BeatId].toolCalls > achieved[1][2]
    /\ sweeps > 0

---------------------------------------------------------------------------
LevelUpTypes == {"agent:levelup", "building:levelup"}

\* C8, as claimed: a heartbeat that raises the agent's derived level
\* broadcasts a level-up event, which is neither agent:xp nor building:xp.
C8_AsClaimed ==
    (/\ IsBeat
     /\ BeatId \in DOMAIN store
     /\ getLevel(calculateXP(store[BeatId])).level > LevelBefore) =>
        \E i \in 1..Len(emitted) : emitted[i].type \in LevelUpTypes

---------------------------------------------------------------------------
\* the waiting flag as a boolean (absent and undefined are false)
IsWaiting(session) == session # NoSession /\ session.waiting = "true"

\* C9, as claimed: a heartbeat broadcasts agent:waiting, once and with the
\* new value, exactly when it changes the agent's waiting flag, the heartbeat
\* that creates the session with the flag set included.
C9_AsClaimed ==
    IsBeat =>
        IF IsWaiting(agents[BeatId]) # IsWaiting(last.existing)
        THEN /\ Len(EventsOf("agent:waiting", BeatId)) = 1
             /\ EventsOf("agent:waiting", BeatId)[1].waiting = agents[BeatId].waiting
        ELSE Len(EventsOfType("agent:waiting")) = 0

---------------------------------------------------------------------------
\* C10: for a live agent whose waiting flag is set, a heartbeat with a
\* non-idle activity and without waiting=true clears the flag, and a heartbeat
\* with no activity or with idle leaves it set.
C10_WaitingClearedByWork ==
    (IsBeat /\ WasLive /\ last.existing.waiting = "true") =>
        /\ (BeatActivity \notin {Null, "idle"} /\ ~last.data.waiting)
              => agents[BeatId].waiting = "false"
        /\ BeatActivity \in {Null, "idle"} => agents[BeatId].waiting = "true"

\* Three requests have been handled; the third, a coding heartbeat, found
\* the agent idle with the flag set and cleared it
C10_Witness ==
    /\ IsBeat /\ WasLive
    /\ last.existing.waiting = "true"
    /\ last.existing.activity = "idle"
    /\ BeatActivity = "coding" /\ ~last.data.waiting
    /\ agents[BeatId].waiting = "false"
    /\ requests = 3 /\ inflight.heartbeat = 0 /\ inflight.event = 0

---------------------------------------------------------------------------
\* the sessions a heartbeat created (a raw agent:spawn sets no role)
FromHeartbeat(session) == session.role # <<>>

\* C11, as claimed: the byte totals of every live session a heartbeat created
\* equal the totals of the agent's durable profile.
C11_AsClaimed ==
    \A a \in DOMAIN agents :
        FromHeartbeat(agents[a]) =>
            /\ a \in DOMAIN store
            /\ agents[a].totalInputBytes  = getEnrichedProfile(store, a).totalInputBytes
            /\ agents[a].totalOutputBytes = getEnrichedProfile(store, a).totalOutputBytes

---------------------------------------------------------------------------
\* the byte counts of the last heartbeat, as the handler read them
BeatInputBytes  == Parsed(last.data).inputBytes
BeatOutputBytes == Parsed(last.data).outputBytes
BeatHasBytes    == BeatInputBytes # 0 \/ BeatOutputBytes # 0

\* the byte totals of a building, 0 while it has no profile
BuildingBytes(bs, b) ==
    IF b \in DOMAIN bs
    THEN [input |-> bs[b].totalInputBytes, output |-> bs[b].totalOutputBytes]
    ELSE [input |-> 0, output |-> 0]

\* C12, as claimed: a heartbeat with non-zero byte counts for a live agent
\* adds exactly those counts to the session, to the durable profile and to
\* the building of the agent's activity after the heartbeat, broadcasts one
\* agent:tokens with the session's new totals and broadcasts the building's
\* recomputed progression.
C12_AsClaimed ==
    [][ (IsBeat' /\ WasLive' /\ BeatHasBytes') =>
          LET id == BeatId'
              b  == TargetBuilding(agents'[id].activity)
              xp == SelectSeq(emitted', LAMBDA e : e.type = "building:xp"
                                                   /\ e.buildingId = b)
          IN  /\ agents'[id].totalInputBytes
                   = agents[id].totalInputBytes + BeatInputBytes'
              /\ agents'[id].totalOutputBytes
                   = agents[id].totalOutputBytes + BeatOutputBytes'
              /\ id \in DOMAIN store /\ id \in DOMAIN store'
              /\ store'[id].totalInputBytes
                   = store[id].totalInputBytes + BeatInputBytes'
              /\ store'[id].totalOutputBytes
                   = store[id].totalOutputBytes + BeatOutputBytes'
              /\ BuildingBytes(buildings', b).input
                   = BuildingBytes(buildings, b).input + BeatInputBytes'
              /\ BuildingBytes(buildings', b).output
                   = BuildingBytes(buildings, b).output + BeatOutputBytes'
              /\ SelectSeq(emitted', LAMBDA e : e.type = "agent:tokens") =
                   << [ type             |-> "agent:tokens",
                        agentId          |-> id,
                        totalInputBytes  |-> agents'[id].totalInputBytes,
                        totalOutputBytes |-> agents'[id].totalOutputBytes ] >>
              /\ xp # <<>>
              /\ xp[Len(xp)].xp = getEnrichedBuilding(buildings', b).xp
              /\ xp[Len(xp)].level = getEnrichedBuilding(buildings', b).level
      ]_vars

---------------------------------------------------------------------------
(* GET /events: the snapshot written to a dashboard when it connects *)

RECURSIVE Flatten(_)
\* the concatenation of a sequence of sequences
Flatten(seqs) == IF seqs = <<>> THEN <<>> ELSE Head(seqs) \o Flatten(Tail(seqs))

\* for (const [id, agent] of agents): the events written for one live agent
SnapshotOfAgent(id) ==
    LET agent    == agents[id]
        enriched == getEnrichedProfile(store, id)
        spawnEvent ==
            [ type             |-> "agent:spawn",
              agentId          |-> id,
              agentName        |-> agent.name,
              agentRole        |-> agent.role,
              level            |-> LevelOr1(enriched),
              xp               |-> IF enriched.exists THEN enriched.xp ELSE 0,
              totalInputBytes  |-> agent.totalInputBytes,
              totalOutputBytes |-> agent.totalOutputBytes,
              subAgentsSpawned |-> IF enriched.exists THEN enriched.subAgentsSpawned
                                   ELSE 0,
              parentId         |-> agent.parentId ]
        work ==
            IF agent.activity # Null /\ agent.activity # "idle"
            THEN << [ type           |-> "agent:work",
                      agentId        |-> id,
                      activity       |-> agent.activity,
                      targetBuilding |-> TargetBuilding(agent.activity),
                      detail         |-> agent.detail ] >>
            ELSE <<>>
        tokens ==
            IF agent.totalInputBytes # 0 \/ agent.totalOutputBytes # 0
            THEN << [ type             |-> "agent:tokens",
                      agentId          |-> id,
                      totalInputBytes  |-> agent.totalInputBytes,
                      totalOutputBytes |-> agent.totalOutputBytes ] >>
            ELSE <<>>
        waiting ==
            IF agent.waiting = "true"
            THEN << [type |-> "agent:waiting", agentId |-> id, waiting |-> "true"] >>
            ELSE <<>>
    IN  <<spawnEvent>> \o work \o tokens \o waiting

\* Mutant of SnapshotOfProfile: the agents.has(profile.agentId) skip is missing
SnapshotOfEveryProfile(id) ==
    LET profile == getEnrichedProfile(store, id) IN
    << [ type             |-> "agent:spawn",
         agentId          |-> id,
         agentName        |-> profile.name,
         agentRole        |-> <<>>,
         parentId         |-> profile.parentId,
         level            |-> LevelOr1(profile),
         xp               |-> profile.xp,
         totalInputBytes  |-> profile.totalInputBytes,
         totalOutputBytes |-> profile.totalOutputBytes,
         subAgentsSpawned |-> profile.subAgentsSpawned,
         offline          |-> TRUE ] >>

\* for (const profile of allProfiles): the event written for one stored
\* profile, none when the agent is live
SnapshotOfProfile(id) ==
    LET profile == getEnrichedProfile(store, id) IN
    IF id \in DOMAIN agents THEN <<>>
    ELSE << [ type             |-> "agent:spawn",
              agentId          |-> id,
              agentName        |-> profile.name,
              agentRole        |-> <<>>,
              parentId         |-> profile.parentId,
              level            |-> LevelOr1(profile),
              xp               |-> profile.xp,
              totalInputBytes  |-> profile.totalInputBytes,
              totalOutputBytes |-> profile.totalOutputBytes,
              subAgentsSpawned |-> profile.subAgentsSpawned,
              offline          |-> TRUE ] >>

\* for (const bp of getAllBuildingProfiles())
SnapshotOfBuilding(buildingId) ==
    LET bp == getEnrichedBuilding(buildings, buildingId) IN
    << [ type           |-> "building:state",
         buildingId     |-> bp.buildingId,
         level          |-> bp.level,
         xp             |-> bp.xp,
         toolCalls      |-> bp.toolCalls,
         uniqueVisitors |-> bp.uniqueVisitors ] >>

\* Everything GET /events writes before it registers the dashboard
Snapshot ==
    Flatten([i \in 1..Len(agentOrder) |-> SnapshotOfAgent(agentOrder[i])])
    \o Flatten([i \in 1..Len(storeOrder) |-> SnapshotOfProfile(storeOrder[i])])
    \o Flatten([i \in 1..Len(buildingOrder) |-> SnapshotOfBuilding(buildingOrder[i])])

Dashboards == {"d1", "d2"}

\* GET /events: the snapshot is written, then sseClients.add(res); the
\* handler has no await, so nothing runs in between
Connect(client) ==
    /\ client \notin sseClients
    /\ sseClients' = sseClients \cup {client}
    /\ written' = [c \in sseClients \cup {client} |->
                     IF c = client THEN Snapshot ELSE <<>>]
    /\ emitted' = <<>>
    /\ last' = [kind |-> "connect", agentId |-> <<>>, data |-> [client |-> client],
                existing |-> NoSession, profile |-> NoProfile]
    /\ UNCHANGED <<disk, agents, agentOrder, store, buildings, buildingPrevLevels,
                   assigned, usedNames, now, sweeps, inflight, requests, achieved,
                   storeOrder, buildingOrder>>

\* req.on('close'): sseClients.delete(res)
Disconnect(client) ==
    /\ client \in sseClients
    /\ sseClients' = sseClients \ {client}
    /\ written' = broadcast(sseClients \ {client}, <<>>)
    /\ emitted' = <<>>
    /\ last' = [kind |-> "close", agentId |-> <<>>, data |-> [client |-> client],
                existing |-> NoSession, profile |-> NoProfile]
    /\ UNCHANGED <<disk, agents, agentOrder, store, buildings, buildingPrevLevels,
                   assigned, usedNames, now, sweeps, inflight, requests, achieved,
                   storeOrder, buildingOrder>>

\* The village with dashboards: two stored residents (a parent and its
\* sub-agent) or none, heartbeats of both, raw spawn and despawn, the timer
StoredVillage ==
    (NormalizeId(ParentLabel) :> StoredProfile(NormalizeId(ParentLabel), 49))
    @@ (NormalizeId(ChildLabel) :>
          [StoredProfile(NormalizeId(ChildLabel), 3)
              EXCEPT !.parentId = NormalizeId(ParentLabel)])

InitStream == Fresh({ <<>>, StoredVillage })

StreamBeats ==
    { Beat(ParentLabel, act, "", b, JAbsent, "undefined", w, <<>>, FALSE) :
        act \in {Null, "coding"}, b \in {JAbsent, JNum(5000)}, w \in BOOLEAN }
    \cup
    { Beat(ChildLabel, "testing", "d1", JAbsent, JAbsent, "undefined", FALSE,
           ParentLabel, FALSE) }

StreamEvents ==
    { Event(t, NormalizeId(ParentLabel), Null, Null, "", Null) :
        t \in {"agent:spawn", "agent:despawn"} }

MaxStreamRequests == 2

NextStream ==
    \/ \E endpoint \in {"heartbeat", "event"} : Arrive(endpoint, MaxStreamRequests)
    \/ \E data \in StreamBeats : Heartbeat(data)
    \/ \E event \in StreamEvents : RawEvent(event)
    \/ \E endpoint \in {"heartbeat", "event"} : Reject(endpoint)
    \/ \E gap \in SweepGaps : Sweep(gap)
    \/ \E client \in Dashboards : Connect(client)
    \/ \E client \in Dashboards : Disconnect(client)

SpecStream == InitStream /\ [][NextStream]_vars

---------------------------------------------------------------------------
IsConnect == last.kind = "connect"

IsSpawn(e)   == e.type = "agent:spawn"
IsOffline(e) == IsSpawn(e) /\ "offline" \in DOMAIN e /\ e.offline

\* the part of the snapshot an event belongs to
SnapshotSection(e) ==
    CASE e.type = "building:state" -> 3
      [] IsOffline(e)              -> 2
      [] OTHER                     -> 1

\* the types of the events that follow the agent:spawn of a live agent
FollowersOf(session) ==
    (IF session.activity # "idle" THEN <<"agent:work">> ELSE <<>>)
    \o (IF session.totalInputBytes # 0 \/ session.totalOutputBytes # 0
        THEN <<"agent:tokens">> ELSE <<>>)
    \o (IF session.waiting = "true" THEN <<"agent:waiting">> ELSE <<>>)

\* C13: what a dashboard is written when it connects is, in this order, the
\* live agents (each an agent:spawn followed by its agent:work, agent:tokens
\* and agent:waiting as applicable), the offline-marked agent:spawn of every
\* stored profile that is not live, and a building:state per building; every
\* known agent id has exactly one agent:spawn, offline-marked exactly when
\* the agent is not live.
C13_SnapshotOrder ==
    IsConnect =>
        LET s     == written[last.data.client]
            known == DOMAIN agents \cup DOMAIN store
        IN  /\ \A i, j \in DOMAIN s :
                  i < j => SnapshotSection(s[i]) <= SnapshotSection(s[j])
            /\ \A a \in known :
                  Cardinality({i \in DOMAIN s : IsSpawn(s[i]) /\ s[i].agentId = a}) = 1
            /\ \A b \in DOMAIN buildings :
                  Cardinality({i \in DOMAIN s : s[i].type = "building:state"
                                                /\ s[i].buildingId = b}) = 1
            /\ \A i \in DOMAIN s :
                  /\ s[i].type \in {"agent:spawn", "agent:work", "agent:tokens",
                                    "agent:waiting", "building:state"}
                  /\ s[i].type = "building:state" => s[i].buildingId \in DOMAIN buildings
                  /\ IsSpawn(s[i]) =>
                        /\ s[i].agentId \in known
                        /\ IsOffline(s[i]) <=> s[i].agentId \notin DOMAIN agents
                  /\ s[i].type \in {"agent:work", "agent:tokens", "agent:waiting"} => i > 1
                  /\ (IsSpawn(s[i]) /\ ~IsOffline(s[i])) =>
                        LET a     == s[i].agentId
                            types == FollowersOf(agents[a])
                            after == i + Len(types) + 1
                        IN  /\ after <= Len(s) + 1
                            /\ \A k \in DOMAIN types :
                                  /\ s[i + k].type = types[k]
                                  /\ s[i + k].agentId = a
                            /\ after <= Len(s) =>
                                  s[after].type \in {"agent:spawn", "building:state"}

\* A dashboard connects while one agent is live with work, bytes and the
\* waiting flag, a stored agent is offline and a building has a profile
C13_Witness ==
    /\ IsConnect
    /\ \E a \in DOMAIN agents : Len(FollowersOf(agents[a])) = 3
    /\ \E a \in DOMAIN store : a \notin DOMAIN agents
    /\ buildings # <<>>
    /\ Len(written[last.data.client]) >= 6

---------------------------------------------------------------------------
\* C14: a dashboard that connects is written the snapshot of the state at
\* that instant, and nothing is broadcast or changed by that step; from then
\* on, while it stays connected, every step writes it exactly the events the
\* step broadcasts, in order.
C14_SnapshotThenBroadcasts ==
    [][ /\ \A c \in sseClients' \ sseClients :
              /\ written'[c] = Snapshot
              /\ emitted' = <<>>
              /\ UNCHANGED <<agents, agentOrder, store, storeOrder, buildings,
                             buildingOrder>>
        /\ \A c \in sseClients' \cap sseClients : written'[c] = emitted'
        /\ DOMAIN written' = sseClients'
      ]_vars

\* A heartbeat's broadcasts reach a dashboard that connected before it, when
\* a second dashboard has connected as well
C14_Witness ==
    /\ IsBeat
    /\ emitted # <<>>
    /\ sseClients = Dashboards
    /\ \A c \in sseClients : written[c] = emitted

---------------------------------------------------------------------------
IsEvent == last.kind = "event"

\* C15, as claimed: after a raw agent:despawn or agent:complete for a live
\* agent the agent is no longer live, the event has been broadcast, and the
\* agent's profile is as it was.
C15_AsClaimed ==
    (IsEvent /\ WasLive /\ last.data.type \in {"agent:despawn", "agent:complete"}) =>
        /\ last.agentId \notin DOMAIN agents
        /\ emitted = <<last.data>>
        /\ last.profile # NoProfile =>
              /\ last.agentId \in DOMAIN store
              /\ store[last.agentId] = last.profile
        /\ last.profile = NoProfile => last.agentId \notin DOMAIN store

---------------------------------------------------------------------------
\* README: "No heartbeat for 2 minutes", in milliseconds
README_TIMEOUT == 120000

IsSweep == last.kind = "sweep"

---------------------------------------------------------------------------
(* Bodies that fail while the handler interprets them *)

\* A JSON value that cannot be converted to a string or a property key: an
\* object with an own "toString" that is not callable, {"toString": 1}.
\* JSON.parse accepts it; `${value}` and ACTIVITY_BUILDING[value] throw.
Unprintable == "{\"toString\":1}"

\* The statement of the heartbeat handler at which an exception is thrown
Throws(data) == Parsed(data).activity = Unprintable

\* if (!existing): the state when console.log(`... joined (${spawnActivity})`)
\* throws, after the name and the profile were set up and before agents.set
ThrownOnSpawn(data) ==
    LET p          == Parsed(data)
        agentId    == p.agentId
        storedName == getStoredName(store, agentId)
        named      == IF storedName # Null /\ storedName # ""
                      THEN [name |-> storedName,
                            names |-> [assigned |-> assigned, usedNames |-> usedNames]]
                      ELSE getDwarfName([assigned |-> assigned,
                                         usedNames |-> usedNames], agentId)
        hasBytes   == p.inputBytes # 0 \/ p.outputBytes # 0
        st1 == getProfile(store, agentId, named.name, p.parentId)
        st2 == recordToolUse(recordSession(st1, agentId), agentId)
        st3 == When(hasBytes,
                    LAMBDA s : recordBytes(s, agentId, p.inputBytes, p.outputBytes), st2)
        st4 == When(p.parentId # Null, LAMBDA s : recordSubAgentSpawn(s, p.parentId), st3)
    IN  [ agents |-> agents,
          store  |-> st4,
          names  |-> named.names,
          events |-> <<>> ]

\* else: the session fields are assigned first; with bytes the exception is
\* thrown by ACTIVITY_BUILDING[effectiveActivity] after recordBytes and the
\* agent:tokens broadcast, without bytes by ACTIVITY_BUILDING[activity] after
\* recordToolUse
ThrownOnUpdate(data) ==
    LET p        == Parsed(data)
        agentId  == p.agentId
        reSpawn  == data.newSpawn /\ p.parentId # Null
        hasBytes == p.inputBytes # 0 \/ p.outputBytes # 0
        st1 == When(reSpawn,
                    LAMBDA s : recordSession(recordSubAgentSpawn(s, p.parentId), agentId),
                    store)
        after == UpdatePath(data).agents
    IN  [ agents |-> after,
          store  |-> IF hasBytes
                     THEN recordBytes(st1, agentId, p.inputBytes, p.outputBytes)
                     ELSE recordToolUse(st1, agentId),
          names  |-> [assigned |-> assigned, usedNames |-> usedNames],
          events |-> IF hasBytes
                     THEN << [ type             |-> "agent:tokens",
                               agentId          |-> agentId,
                               totalInputBytes  |-> after[agentId].totalInputBytes,
                               totalOutputBytes |-> after[agentId].totalOutputBytes ] >>
                     ELSE <<>> ]

\* The heartbeat handler from `await readBody` to its catch clause, for a
\* body that throws while it is interpreted: the request is answered 400
HeartbeatThrows(data) ==
    /\ inflight.heartbeat > 0
    /\ Throws(data)
    /\ \E id \in {Parsed(data).agentId},
          r \in {IF Parsed(data).agentId \in DOMAIN agents
                 THEN ThrownOnUpdate(data) ELSE ThrownOnSpawn(data)} :
           /\ agents' = r.agents
           /\ store' = r.store
           /\ assigned' = r.names.assigned
           /\ usedNames' = r.names.usedNames
           /\ emitted' = r.events
           /\ written' = broadcast(sseClients, r.events)
           /\ storeOrder' = ObjectKeys(storeOrder, r.store)
           /\ last' = [ kind     |-> "rejected",
                        agentId  |-> id,
                        data     |-> data,
                        existing |-> IF id \in DOMAIN agents THEN agents[id] ELSE NoSession,
                        profile  |-> IF id \in DOMAIN store THEN store[id] ELSE NoProfile ]
    /\ inflight' = [inflight EXCEPT !.heartbeat = @ - 1]
    /\ UNCHANGED <<disk, agentOrder, buildings, buildingPrevLevels, now, sweeps, requests,
                   achieved, buildingOrder, sseClients>>

\* Heartbeats of a hook that reports well-formed activities, and of one that
\* sends an object as the activity, alone, with a byte count, or for a
\* sub-agent
PlainBeats ==
    { Beat(ParentLabel, act, "", JAbsent, JAbsent, "undefined", FALSE, <<>>, FALSE) :
        act \in {Null, "coding"} }

ThrowingBeats ==
    { Beat(ParentLabel, Unprintable, "", b, JAbsent, "undefined", FALSE, <<>>, FALSE) :
        b \in {JAbsent, JNum(5000)} }
    \cup
    { Beat(ChildLabel, Unprintable, "", JAbsent, JAbsent, "undefined", FALSE,
           ParentLabel, FALSE) }

MaxRejectRequests == 3

NextReject ==
    \/ \E endpoint \in {"heartbeat", "event"} : Arrive(endpoint, MaxRejectRequests)
    \/ \E data \in PlainBeats : Heartbeat(data)
    \/ \E data \in ThrowingBeats : HeartbeatThrows(data)
    \/ \E event \in VillageEvents : RawEvent(event)
    \/ \E endpoint \in {"heartbeat", "event"} : Reject(endpoint)

SpecReject == Init /\ [][NextReject]_vars

\* C18, as claimed: a step that answers a heartbeat or a raw event with a
\* client error changes neither the live sessions, nor the agent store, nor
\* the building store, nor the name allocator, and broadcasts nothing.
C18_AsClaimed ==
    [][ (last'.kind = "rejected") =>
          /\ UNCHANGED <<agents, store, buildings, assigned, usedNames>>
          /\ emitted' = <<>>
      ]_vars

---------------------------------------------------------------------------
\* Every record* function applied to an agent that has no profile returns
\* the agent store as it is
UnknownIdRecordsNothing ==
    \A id \in AgentIds \ DOMAIN store :
        /\ recordToolUse(store, id) = store
        /\ recordBytes(store, id, 5000, 5000) = store
        /\ recordActivity(store, id, "coding", "d1") = store
        /\ recordSession(store, id) = store
        /\ recordSubAgentSpawn(store, id) = store

\* C19: a raw agent:work, agent:failure or agent:despawn event for an agent
\* that is not live is answered with success and broadcast, and leaves the
\* live sessions, the agent store and the building store as they are; and in
\* every reachable state recordToolUse, recordBytes, recordActivity,
\* recordSession and recordSubAgentSpawn on an agent without a profile leave
\* the agent store as it is.
C19_UnknownIdIsNoOp ==
    /\ []UnknownIdRecordsNothing
    /\ [][ ( /\ last'.kind = "event"
             /\ last'.data.type \in {"agent:work", "agent:failure", "agent:despawn"}
             /\ last'.agentId \notin DOMAIN agents ) =>
               /\ UNCHANGED <<agents, agentOrder, store, buildings>>
               /\ emitted' = <<last'.data>>
         ]_vars

\* A raw agent:work event has been handled for an agent that is neither live
\* nor stored, while another agent is live
C19_Witness ==
    /\ IsEvent
    /\ last.data.type = "agent:work"
    /\ ~WasLive
    /\ last.agentId \notin DOMAIN store
    /\ DOMAIN agents # {}

---------------------------------------------------------------------------
(* Display names *)

\* An agent whose id hashes to the same prefix and suffix as the parent's
TwinLabel == <<"d","3","a">>

\* Heartbeats of two agents that join, work and re-join
NameBeats ==
    { Beat(agent, act, "", JAbsent, JAbsent, "undefined", FALSE, <<>>, FALSE) :
        agent \in {ParentLabel, TwinLabel}, act \in {Null, "coding"} }

NameEvents ==
    { Event("agent:despawn", NormalizeId(agent), Null, Null, "", Null) :
        agent \in {ParentLabel, TwinLabel} }

MaxNameRequests == 4

\* The village at startup: no agents.json, or the one an earlier run left in
\* which the parent has its name
InitNames == Fresh({ <<>>, StoredAt(49) })

NextNames ==
    \/ \E endpoint \in {"heartbeat", "event"} : Arrive(endpoint, MaxNameRequests)
    \/ \E data \in NameBeats : Heartbeat(data)
    \/ \E event \in NameEvents : RawEvent(event)
    \/ \E endpoint \in {"heartbeat", "event"} : Reject(endpoint)
    \/ \E gap \in SweepGaps : Sweep(gap)

SpecNames == InitNames /\ [][NextNames]_vars

\* C20, as claimed: no two live agents have the same display name.
C20_AsClaimed ==
    \A a, b \in DOMAIN agents : a # b => agents[a].name # agents[b].name

---------------------------------------------------------------------------
(* The sweep as a periodic timer *)

\* setInterval(..., 5000): the callback fires SWEEP_INTERVAL after the
\* previous firing.  The clock is read only into lastSeen and compared only
\* with lastSeen, so it is followed while a session is live; with no session
\* the callback finds nothing to remove.
Timer ==
    /\ DOMAIN agents # {}
    /\ UNCHANGED sweeps
    /\ SweepCallback(now + SWEEP_INTERVAL)

\* Heartbeats and raw events of a parent and its sub-agent; every one of
\* them sets lastSeen, none removes a session
LiveBeats ==
    { Beat(ParentLabel, "coding", "", JAbsent, JAbsent, "undefined", FALSE, <<>>, FALSE),
      Beat(ChildLabel, "testing", "", JAbsent, JAbsent, "undefined", FALSE,
           ParentLabel, FALSE) }

LiveEvents ==
    { Event("agent:work", NormalizeId(ParentLabel), Null, "reviewing", "", Null) }

MaxLiveRequests == 2

\* One dashboard, which connects and disconnects at any time
LiveDashboard == CHOOSE client \in Dashboards : TRUE

InitLive == Fresh({ <<>> })

NextLive ==
    \/ \E endpoint \in {"heartbeat", "event"} : Arrive(endpoint, MaxLiveRequests)
    \/ \E data \in LiveBeats : Heartbeat(data)
    \/ \E event \in LiveEvents : RawEvent(event)
    \/ Connect(LiveDashboard)
    \/ Disconnect(LiveDashboard)
    \/ Timer

\* The timer keeps firing whatever the requests do
SpecLive == InitLive /\ [][NextLive]_vars /\ WF_vars(Timer)

\* C16: every live session is eventually removed once heartbeats and events
\* for it stop (here only the sweep removes sessions); a firing of the timer
\* removes a session only if its lastSeen is more than DESPAWN_TIMEOUT before
\* the current time, and then agent:despawn for it is broadcast, written to
\* every connected dashboard like the events of a request.
C16_SweepRemovesSilentSessions ==
    /\ \A a \in AgentIds : (a \in DOMAIN agents) ~> (a \notin DOMAIN agents)
    /\ [][ (last'.kind = "sweep") =>
             /\ written' = broadcast(sseClients', emitted')
             /\ \A a \in DOMAIN agents \ DOMAIN agents' :
                    /\ now' - agents[a].lastSeen > DESPAWN_TIMEOUT
                    /\ \E i \in DOMAIN emitted' : emitted'[i] = DespawnEvent(a)
         ]_vars

\* A firing of the timer has removed a silent session and the agent:despawn
\* event was written to a connected dashboard
C16_Witness ==
    /\ IsSweep
    /\ \E i \in DOMAIN emitted : emitted[i].type = "agent:despawn"
    /\ \E c \in sseClients : written[c] = emitted

---------------------------------------------------------------------------
(* The name allocator on its own *)

\* An id whose hash selects the name that follows the parent's in probe order
NextSlotId == <<"p","7","a">>

\* Two ids whose hash selects the last prefix with the last suffix, from
\* which the probe wraps around to the first of each
WrapIds == { <<"2","7","k">>, <<"2","9","e">> }

\* Two ids with the same hash name, one with the next name in probe order,
\* one apart, and the two at the wrap-around
NameIds == { NormalizeId(ParentLabel), NormalizeId(TwinLabel), NextSlotId,
             NormalizeId(ChildLabel) } \cup WrapIds

\* The name an id holds, null when it holds none
HeldName(id) == IF id \in DOMAIN assigned THEN assigned[id] ELSE Null

\* getDwarfName(agentId)
Assign(id) ==
    /\ \E r \in {getDwarfName([assigned |-> assigned, usedNames |-> usedNames], id)} :
           /\ assigned' = r.names.assigned
           /\ usedNames' = r.names.usedNames
           /\ last' = [kind |-> "assign", agentId |-> id, data |-> [name |-> r.name],
                       existing |-> NoSession, profile |-> NoProfile]
    /\ UNCHANGED <<disk, agents, agentOrder, store, buildings, buildingPrevLevels, now, sweeps,
                   inflight, requests, emitted, achieved, storeOrder, buildingOrder,
                   sseClients, written>>

\* releaseName(agentId)
Release(id) ==
    /\ \E r \in {releaseName([assigned |-> assigned, usedNames |-> usedNames], id)} :
           /\ assigned' = r.assigned
           /\ usedNames' = r.usedNames
    /\ last' = [kind |-> "release", agentId |-> id, data |-> [name |-> HeldName(id)],
                existing |-> NoSession, profile |-> NoProfile]
    /\ UNCHANGED <<disk, agents, agentOrder, store, buildings, buildingPrevLevels, now, sweeps,
                   inflight, requests, emitted, achieved, storeOrder, buildingOrder,
                   sseClients, written>>

InitAllocator == Fresh({ <<>> })

NextAllocator ==
    \/ \E id \in NameIds : Assign(id)
    \/ \E id \in NameIds : Release(id)

SpecAllocator == InitAllocator /\ [][NextAllocator]_vars

\* C21: after any sequence of getDwarfName and releaseName calls the names
\* of the assigned ids are pairwise distinct, and usedNames is exactly the
\* set of names the assigned ids hold.
C21_AssignedNamesDistinct ==
    /\ \A a, b \in DOMAIN assigned : a # b => assigned[a] # assigned[b]
    /\ usedNames = { assigned[a] : a \in DOMAIN assigned }

\* All ids hold names at once, one of them the first name of the table after
\* a wrap-around, and the last call gave an id a name other than the one its
\* hash selects
C21_Witness ==
    /\ DOMAIN assigned = NameIds
    /\ DwarfName(0, 0) \in usedNames
    /\ last.kind = "assign"
    /\ last.data.name # getDwarfName([assigned |-> <<>>, usedNames |-> {}],
                                     last.agentId).name


\* C22, as claimed: releaseName(id) followed at once by getDwarfName(id)
\* gives id the name it held before the release.
C22_AsClaimed ==
    [][ ( /\ last.kind = "release"
          /\ last.data.name # Null
          /\ last'.kind = "assign"
          /\ last'.agentId = last.agentId ) =>
            last'.data.name = last.data.name
      ]_vars

---------------------------------------------------------------------------
\* C23: no step changes the name of a profile that exists, and every
\* agent:spawn event a heartbeat broadcasts carries the name of the agent's
\* profile; so the name first assigned is the name forever.
C23_NameNeverChanges ==
    /\ [][ \A id \in DOMAIN store :
               /\ id \in DOMAIN store'
               /\ store'[id].name = store[id].name ]_vars
    /\ [](IsBeat => \A i \in DOMAIN emitted :
                       emitted[i].type = "agent:spawn" =>
                           emitted[i].agentName = store[emitted[i].agentId].name)

\* An agent with a stored name has re-joined while another live agent holds
\* that name in the allocator, which would now give a different one
C23_Witness ==
    /\ IsBeat
    /\ ~WasLive
    /\ last.profile # NoProfile
    /\ agents[BeatId].name = last.profile.name
    /\ \E other \in DOMAIN assigned :
           other # BeatId /\ assigned[other] = last.profile.name

---------------------------------------------------------------------------
(* A sub-agent and its parents *)

OtherLabel == <<"P","2">>

\* Heartbeats of one agent that reports no parent, one parent or another,
\* as a fresh sub-agent or not
FamilyBeats ==
    { Beat(ChildLabel, "coding", "", JAbsent, JAbsent, "undefined", FALSE, pa, ns) :
        pa \in {<<>>, ParentLabel, OtherLabel}, ns \in BOOLEAN }

FamilyEvents ==
    { Event("agent:despawn", NormalizeId(ChildLabel), Null, Null, "", Null) }

MaxFamilyRequests == 4

InitFamily == Fresh({ <<>> })

NextFamily ==
    \/ \E endpoint \in {"heartbeat", "event"} : Arrive(endpoint, MaxFamilyRequests)
    \/ \E data \in FamilyBeats : Heartbeat(data)
    \/ \E event \in FamilyEvents : RawEvent(event)
    \/ \E gap \in SweepGaps : Sweep(gap)

SpecFamily == InitFamily /\ [][NextFamily]_vars

\* x and y are the same id, or both null
SameId(x, y) ==
    IF x = Null \/ y = Null THEN x = Null /\ y = Null ELSE x = y

\* the parent the last heartbeat named, normalised like an agent id
BeatParent == Parsed(last.data).parentId

ParentBefore ==
    IF last.profile = NoProfile THEN Null ELSE last.profile.parentId

\* C24, as claimed: after a heartbeat that names a parent, the agent's
\* profile holds the parent it held before if it held one, and otherwise the
\* normalised parent the heartbeat named.
C24_AsClaimed ==
    (IsBeat /\ BeatParent # Null) =>
        /\ BeatId \in DOMAIN store
        /\ SameId(store[BeatId].parentId,
                  IF ParentBefore # Null THEN ParentBefore ELSE BeatParent)

---------------------------------------------------------------------------
(* The agent store on its own *)

\* Arguments of getProfile(agentId, dwarfName, parentId, clan) as its
\* callers pass them; "" is an absent clan
ProfileNames == {"Kraggrim", "Dunrik"}
ProfileClans == {"", "old-clan", "new-clan"}

\* getProfile(agentId, dwarfName, parentId, clan): the function declares
\* three parameters, a fourth argument is not bound to anything
GetProfileCall(agentId, dwarfName, parentId, clan) ==
    /\ \E st \in {getProfile(store, agentId, dwarfName, parentId)} :
           /\ store' = st
           /\ storeOrder' = ObjectKeys(storeOrder, st)
    /\ last' = [kind |-> "getProfile", agentId |-> agentId,
                data |-> [name |-> dwarfName, parentId |-> parentId, clan |-> clan],
                existing |-> NoSession,
                profile |-> IF agentId \in DOMAIN store THEN store[agentId]
                            ELSE NoProfile]
    /\ UNCHANGED <<disk, agents, agentOrder, buildings, buildingPrevLevels, assigned,
                   usedNames, now, sweeps, inflight, requests, emitted, achieved,
                   buildingOrder, sseClients, written>>

InitStore == Fresh({ <<>>, StoredAt(49) })

NextStore ==
    \E agentId \in AgentIds, dwarfName \in ProfileNames,
       parentId \in {Null, NormalizeId(ParentLabel)}, clan \in ProfileClans :
        GetProfileCall(agentId, dwarfName, parentId, clan)

SpecStore == InitStore /\ [][NextStore]_vars

\* the clan a profile holds, "" when it holds none
ClanOf(profile) ==
    IF profile # NoProfile /\ "clan" \in DOMAIN profile THEN profile.clan ELSE ""

\* C25, as claimed: after getProfile with a non-empty clan the profile holds
\* that clan; after getProfile with an empty clan it holds the clan it held
\* before.
C25_AsClaimed ==
    (last.kind = "getProfile") =>
        ClanOf(store[last.agentId]) =
            IF last.data.clan # "" THEN last.data.clan ELSE ClanOf(last.profile)

---------------------------------------------------------------------------
SessionsBefore == IF last.profile = NoProfile THEN 0 ELSE last.profile.sessions

SessionsAfter ==
    IF BeatId \in DOMAIN store THEN store[BeatId].sessions ELSE 0

\* the last heartbeat re-activated a live sub-agent
IsReactivation == WasLive /\ last.data.newSpawn /\ BeatParent # Null

---------------------------------------------------------------------------
(* Fan-out with failing subscribers *)

\* Mutant of fanOut: a subscriber whose write fails stays registered
KeepFailing(clients, events, failAt) ==
    [ written |-> [c \in clients |->
                     IF c \in DOMAIN failAt THEN SubSeq(events, 1, failAt[c] - 1)
                     ELSE events],
      clients |-> clients ]

\* Mutant of fanOut: removing a subscriber ends the loop over the others
DropEndsLoop(clients, events, failAt) ==
    [ written |-> [c \in clients |->
                     IF failAt # <<>>
                     THEN SubSeq(events, 1, failAt[CHOOSE d \in DOMAIN failAt : TRUE] - 1)
                     ELSE events],
      clients |-> clients \ DOMAIN failAt ]

\* broadcast(event) called for events[1], events[2], ... in a row, when the
\* subscribers in DOMAIN failAt turn out not writable (or their write throws)
\* at the event of index failAt[c]: such a subscriber has been written the
\* events before that one and is deleted from sseClients; the loop goes on
\* with the other subscribers
fanOut(clients, events, failAt) ==
    [ written |-> [c \in clients |->
                     IF c \in DOMAIN failAt THEN SubSeq(events, 1, failAt[c] - 1)
                     ELSE broadcast(clients, events)[c]],
      clients |-> clients \ DOMAIN failAt ]

\* The heartbeat handler, as Heartbeat, when streams fail during its
\* broadcasts
HeartbeatDropping(data, failAt) ==
    /\ inflight.heartbeat > 0
    /\ DOMAIN failAt \subseteq sseClients
    /\ \E r \in {HeartbeatEffect(data)}, id \in {Parsed(data).agentId} :
           /\ \A c \in DOMAIN failAt : failAt[c] <= Len(r.events)
           /\ agents' = r.agents
           /\ agentOrder' = r.agentOrder
           /\ store' = r.store
           /\ buildings' = r.buildings
           /\ buildingPrevLevels' = r.prevLevels
           /\ assigned' = r.names.assigned
           /\ usedNames' = r.names.usedNames
           /\ emitted' = r.events
           /\ \E out \in {fanOut(sseClients, r.events, failAt)} :
                  /\ written' = out.written
                  /\ sseClients' = out.clients
           /\ storeOrder' = ObjectKeys(storeOrder, r.store)
           /\ buildingOrder' = ObjectKeys(buildingOrder, r.buildings)
           /\ achieved' = achieved \o r.achieved
           /\ last' = [ kind     |-> "heartbeat",
                        agentId  |-> id,
                        data     |-> data,
                        existing |-> IF id \in DOMAIN agents THEN agents[id] ELSE NoSession,
                        profile  |-> IF id \in DOMAIN store THEN store[id] ELSE NoProfile,
                        failed   |-> DOMAIN failAt ]
    /\ inflight' = [inflight EXCEPT !.heartbeat = @ - 1]
    /\ UNCHANGED <<disk, now, sweeps, requests>>

\* Heartbeats of two agents, with and without byte counts
FanoutBeats ==
    { Beat(ParentLabel, act, "", b, JAbsent, "undefined", FALSE, <<>>, FALSE) :
        act \in {Null, "coding"}, b \in {JAbsent, JNum(5000)} }
    \cup
    { Beat(ChildLabel, "testing", "d1", JAbsent, JAbsent, "undefined", TRUE,
           ParentLabel, FALSE) }

FanoutEvents ==
    { Event("agent:despawn", NormalizeId(ParentLabel), Null, Null, "", Null) }

MaxFanoutRequests == 2

\* the latest event of a block at which a stream is found broken
MaxFailAt == 3

\* Which streams fail during a block, and at which event
FailurePoints ==
    UNION { [S -> 1..MaxFailAt] : S \in (SUBSET Dashboards) \ {{}} }

NextFanout ==
    \/ \E endpoint \in {"heartbeat", "event"} : Arrive(endpoint, MaxFanoutRequests)
    \/ \E data \in FanoutBeats : Heartbeat(data)
    \/ \E data \in FanoutBeats, failAt \in FailurePoints : HeartbeatDropping(data, failAt)
    \/ \E event \in FanoutEvents : RawEvent(event)
    \/ \E gap \in SweepGaps : Sweep(gap)
    \/ \E client \in Dashboards : Connect(client)
    \/ \E client \in Dashboards : Disconnect(client)

InitFanout == Fresh({ <<>> })

SpecFanout == InitFanout /\ [][NextFanout]_vars


IsPrefix(s, t) == Len(s) <= Len(t) /\ s = SubSeq(t, 1, Len(s))

\* the subscribers whose stream failed during the step that led to l
FailedIn(l) == IF "failed" \in DOMAIN l THEN l.failed ELSE {}

\* C27: whatever requests are in flight, a heartbeat step writes to every
\* subscriber that is registered after it the whole block of events the
\* handler computed from the state it found, in order and with nothing in
\* between; only a subscriber whose stream failed during the block, which is
\* no longer registered, has been written less, namely a prefix of the block.
C27_HeartbeatBlockIsAtomic ==
    [][ (last'.kind = "heartbeat") =>
          /\ emitted' = HeartbeatEffect(last'.data).events
          /\ \A c \in sseClients' : written'[c] = emitted'
          /\ \A c \in sseClients \ sseClients' :
                 /\ c \in FailedIn(last')
                 /\ IsPrefix(written'[c], emitted')
      ]_vars

\* A heartbeat has broadcast several events to two subscribers while another
\* request was in flight, awaiting its body
C27_Witness ==
    /\ IsBeat
    /\ Len(emitted) >= 3
    /\ sseClients = Dashboards
    /\ \A c \in sseClients : written[c] = emitted
    /\ inflight.heartbeat + inflight.event >= 1

\* C28: every step writes the events it broadcasts, all of them and in
\* order, to every subscriber that was registered before it and is so after
\* it, so any two of these are written the same; a subscriber leaves the
\* fan-out set only when its stream failed during the step or it
\* disconnected, then it does leave it, and one enters it only by connecting.
C28_FanOutReachesEverySubscriber ==
    [][ /\ \A c \in sseClients \cap sseClients' : written'[c] = emitted'
        /\ \A c, d \in sseClients \cap sseClients' : written'[c] = written'[d]
        /\ \A c \in sseClients \ sseClients' :
               \/ c \in FailedIn(last')
               \/ last'.kind = "close" /\ last'.data.client = c
        /\ \A c \in FailedIn(last') : c \notin sseClients'
        /\ (last'.kind = "close") => last'.data.client \notin sseClients'
        /\ \A c \in sseClients' \ sseClients :
               last'.kind = "connect" /\ last'.data.client = c
      ]_vars

\* One subscriber's stream failed in the middle of a block and the other
\* subscriber has been written the whole block
C28_Witness ==
    /\ IsBeat
    /\ Len(emitted) >= 3
    /\ Cardinality(sseClients) = 1
    /\ \A c \in sseClients : written[c] = emitted
    /\ \E c \in FailedIn(last) : written[c] # <<>> /\ written[c] # emitted


---------------------------------------------------------------------------
(* The stores and their files: mutating calls, the debounced save, orderly *)
(* termination, crash and restart                                          *)

PersistAgent    == NormalizeId(ParentLabel)
PersistBuilding == "forge"

\* The byte counts a heartbeat can hand to the stores (bridge.mjs:241)
PersistBytes == {JNum(5000), JHuge}

MaxPersistCalls == 3

Quiet(kind) ==
    [kind |-> kind, agentId |-> <<>>, data |-> NoData,
     existing |-> NoSession, profile |-> NoProfile]

\* debouncedSave(): arms the store's timer unless it is armed already
debouncedSave(d, s) == [d EXCEPT !.timer[s] = TRUE]

\* The agent store calls of one heartbeat with a tool use and bytes:
\* getProfile, recordToolUse, recordBytes
AgentStoreCall(agentId, bytes) ==
    /\ disk.up /\ disk.pc = <<>>
    /\ requests < MaxPersistCalls
    /\ \E name \in {getDwarfName([assigned |-> <<>>, usedNames |-> {}], agentId).name} :
         store' = recordBytes(recordToolUse(getProfile(store, agentId, name, Null), agentId),
                              agentId, ParseIntOr0(bytes), 0)
    /\ storeOrder' = ObjectKeys(storeOrder, store')
    /\ disk' = debouncedSave(disk, "agents")
    /\ requests' = requests + 1
    /\ last' = Quiet("agentStore")
    /\ UNCHANGED <<agents, agentOrder, buildings, buildingPrevLevels, assigned, usedNames,
                   now, sweeps, inflight, emitted, achieved, buildingOrder, sseClients,
                   written>>

\* The building store call of such a heartbeat: recordActivity(building, 0, bytes)
BuildingStoreCall(buildingId, bytes) ==
    /\ disk.up /\ disk.pc = <<>>
    /\ requests < MaxPersistCalls
    /\ buildings' = recordBuildingActivity(buildings, buildingId, 0, ParseIntOr0(bytes), 0)
    /\ buildingOrder' = ObjectKeys(buildingOrder, buildings')
    /\ disk' = debouncedSave(disk, "buildings")
    /\ requests' = requests + 1
    /\ last' = Quiet("buildingStore")
    /\ UNCHANGED <<agents, agentOrder, store, buildingPrevLevels, assigned, usedNames,
                   now, sweeps, inflight, emitted, achieved, storeOrder, sseClients,
                   written>>

Memory(s) == IF s = "agents" THEN store ELSE buildings

\* The state of the files after one step of a save, a timer callback or an
\* exit listener
stepEffect(d, step, memory) ==
    CASE step.op = "open"   -> [d EXCEPT ![step.path][step.store] = Partial]
      [] step.op = "write"  -> [d EXCEPT ![step.path][step.store] =
                                              Complete(stringify(step.store, memory)),
                                         !.saved[step.store] =
                                              @ \cup {stringify(step.store, memory)}]
      [] step.op = "rename" -> [d EXCEPT !.file[step.store] = d.tmp[step.store],
                                         !.tmp[step.store]  = NoFile]
      [] step.op = "clear"  -> [d EXCEPT !.timer[step.store] = FALSE]
      [] step.op = "exit"   -> [d EXCEPT !.up = FALSE,
                                         !.timer = [s \in Stores |-> FALSE]]

\* The next step of the synchronous code that is running
RunStep ==
    /\ disk.up /\ disk.pc # <<>>
    /\ disk.writable \/ Head(disk.pc).op \in {"clear", "exit"}
    /\ \E step \in {Head(disk.pc)} :
         /\ disk' = [stepEffect(disk, step, Memory(step.store)) EXCEPT !.pc = Tail(disk.pc)]
         /\ last' = Quiet(step.op)
    /\ UNCHANGED <<agents, agentOrder, store, buildings, buildingPrevLevels, assigned,
                   usedNames, now, sweeps, inflight, requests, emitted, achieved,
                   storeOrder, buildingOrder, sseClients, written>>

\* The debounce timer of store s fires
TimerFires(s) ==
    /\ disk.up /\ disk.pc = <<>>
    /\ disk.timer[s]
    /\ disk' = [disk EXCEPT !.pc = timerCallback(s)]
    /\ last' = Quiet("timer")
    /\ UNCHANGED <<agents, agentOrder, store, buildings, buildingPrevLevels, assigned,
                   usedNames, now, sweeps, inflight, requests, emitted, achieved,
                   storeOrder, buildingOrder, sseClients, written>>

\* The process is told to end, between two callbacks
Terminate(cause) ==
    /\ disk.up /\ disk.pc = <<>>
    /\ disk' = [disk EXCEPT !.pc = terminate(cause)]
    /\ last' = [Quiet("terminate") EXCEPT !.data = [cause |-> cause]]
    /\ UNCHANGED <<agents, agentOrder, store, buildings, buildingPrevLevels, assigned,
                   usedNames, now, sweeps, inflight, requests, emitted, achieved,
                   storeOrder, buildingOrder, sseClients, written>>

\* The process is killed or the machine stops, between any two steps
Crash ==
    /\ disk.up
    /\ disk' = [disk EXCEPT !.up = FALSE, !.pc = <<>>,
                            !.timer = [s \in Stores |-> FALSE]]
    /\ last' = Quiet("crash")
    /\ UNCHANGED <<agents, agentOrder, store, buildings, buildingPrevLevels, assigned,
                   usedNames, now, sweeps, inflight, requests, emitted, achieved,
                   storeOrder, buildingOrder, sseClients, written>>

KeysIn(order, obj) ==
    LET Kept(k) == k \in DOMAIN obj IN SelectSeq(order, Kept)

\* The process starts again: each store module loads its file
Restart ==
    /\ ~disk.up
    /\ store' = load("agents", disk.file["agents"])
    /\ buildings' = load("buildings", disk.file["buildings"])
    /\ storeOrder' = KeysIn(storeOrder, store')
    /\ buildingOrder' = KeysIn(buildingOrder, buildings')
    /\ disk' = [disk EXCEPT !.up = TRUE]
    /\ last' = Quiet("restart")
    /\ UNCHANGED <<agents, agentOrder, buildingPrevLevels, assigned, usedNames,
                   now, sweeps, inflight, requests, emitted, achieved, sseClients,
                   written>>

InitPersist == Fresh({<<>>, StoredAt(49)})

NextPersist ==
    \/ \E bytes \in PersistBytes : AgentStoreCall(PersistAgent, bytes)
    \/ \E bytes \in PersistBytes : BuildingStoreCall(PersistBuilding, bytes)
    \/ \E s \in Stores : TimerFires(s)
    \/ RunStep
    \/ \E cause \in Terminations : Terminate(cause)
    \/ Crash
    \/ Restart

SpecPersist == InitPersist /\ [][NextPersist]_vars

IsComplete(s, file) == file.state = "complete" /\ file.text \in disk.saved[s]

\* C29: whatever happens, a crash between two steps of a save included, the
\* canonical file of each store is absent or holds the complete text of the
\* store as it was in memory at some earlier save, and the store a restart
\* loads is that text parsed, or a fresh store when there is no file.
C29_CanonicalFileIsNeverPartial ==
    /\ [](\A s \in Stores :
            disk.file[s].state = "absent" \/ IsComplete(s, disk.file[s]))
    /\ [][ last'.kind = "restart" =>
             \A s \in Stores :
                Memory(s)' = IF disk.file[s].state = "absent" THEN <<>>
                             ELSE parse(s, disk.file[s].text) ]_vars

\* The process stopped in the middle of a save: the temporary file is half
\* written, the canonical one still holds an older store than the memory
\* had, and the process has started again from it
C29_Witness ==
    /\ last.kind = "restart"
    /\ \E s \in Stores :
         /\ disk.tmp[s].state = "partial"
         /\ disk.file[s].state = "complete"
         /\ Cardinality(disk.saved[s]) >= 2
         /\ Memory(s) = parse(s, disk.file[s].text)

\* C30 as stated: when the process has ended in an orderly way, the store
\* each file gives back at the next start is the store the memory held.
C30_AsClaimed ==
    (last.kind = "exit") =>
        \A s \in Stores : load(s, disk.file[s]) = Memory(s)


---------------------------------------------------------------------------
(* The level tables queried on their own: getLevel and getNextLevel of the *)
(* agent store and of the building store                                   *)

\* The agent table, and the two tables of the building store by a building
\* that selects them
LevelTables == {"agents", "forge", "campfire"}

TableOf(t) == IF t = "agents" THEN LEVELS ELSE BuildingTable(t)

DenseXP == 300
MaxXP   == 1000000

Thresholds == UNION { {TableOf(t)[i].minXP : i \in 1..Len(TableOf(t))} : t \in LevelTables }

\* Every xp up to DenseXP, every threshold with its two neighbours, and one
\* xp beyond every table
LevelXPs ==
    (0..DenseXP) \cup { x \in UNION { {m - 1, m, m + 1} : m \in Thresholds } : x >= 0 }
                 \cup {MaxXP}

LevelOf(t, xp) == IF t = "agents" THEN getLevel(xp) ELSE getBuildingLevel(xp, t)

NextLevelOf(t, xp) == IF t = "agents" THEN getNextLevel(xp) ELSE getBuildingNextLevel(xp, t)

\* One call of getLevel(xp) and one of getNextLevel(xp) on table t
LevelQuery(t, xp) ==
    /\ last' = [ kind |-> "levels", agentId |-> <<>>,
                 data |-> [ table |-> t, xp |-> xp,
                            level |-> LevelOf(t, xp), next |-> NextLevelOf(t, xp) ],
                 existing |-> NoSession, profile |-> NoProfile ]
    /\ UNCHANGED <<disk, agents, agentOrder, store, buildings, buildingPrevLevels, assigned,
                   usedNames, now, sweeps, inflight, requests, emitted, achieved,
                   storeOrder, buildingOrder, sseClients, written>>

InitLevels == Fresh({<<>>})

NextLevels == \E t \in LevelTables, xp \in LevelXPs : LevelQuery(t, xp)

SpecLevels == InitLevels /\ [][NextLevels]_vars

IsLevels == last.kind = "levels"

Entries(t) == { TableOf(t)[i] : i \in 1..Len(TableOf(t)) }

TopLevel == 10

\* C31: for every xp >= 0 and each of the tables, getLevel returns the
\* highest entry whose minXP is at most xp, which is level 10 from the last
\* threshold on; getNextLevel returns null exactly when getLevel is level
\* 10, and otherwise the entry L one level above getLevel(xp), for which
\* getLevel(L.minXP) is L and getLevel(L.minXP - 1) is not.
C31_LevelsAreConsistent ==
    IsLevels =>
        LET t   == last.data.table
            xp  == last.data.xp
            cur == last.data.level
            nxt == last.data.next
        IN  /\ cur \in Entries(t)
            /\ cur.minXP <= xp
            /\ \A e \in Entries(t) : e.minXP <= xp => e.level <= cur.level
            /\ cur.level <= TopLevel
            /\ (\A e \in Entries(t) : e.minXP <= xp) => cur.level = TopLevel
            /\ (nxt = NoLevel) <=> (cur.level = TopLevel)
            /\ nxt # NoLevel =>
                 /\ nxt \in Entries(t)
                 /\ nxt.level = cur.level + 1
                 /\ LevelOf(t, nxt.minXP) = nxt
                 /\ LevelOf(t, nxt.minXP - 1) # nxt

\* The query one xp below the last threshold of the campfire table: level 9,
\* and level 10 is next
C31_Witness ==
    /\ IsLevels
    /\ last.data.table = "campfire"
    /\ last.data.level.level = 9
    /\ last.data.next.level = TopLevel
    /\ last.data.xp + 1 = last.data.next.minXP


---------------------------------------------------------------------------
(* The recent-activity ring: recordActivity called on its own *)

RingAgents == {NormalizeId(ParentLabel), NormalizeId(ChildLabel)}

MaxRingCalls == 22

\* A store that holds a new profile for each of the ring's agents
RingStore ==
    [id \in RingAgents |->
        NewProfile(getDwarfName([assigned |-> <<>>, usedNames |-> {}], id).name, Null)]

\* Everything recorded so far for each agent, in recording order
Recorded == IF last.kind = "recordActivity" THEN last.data.recorded
            ELSE [id \in RingAgents |-> <<>>]

\* recordActivity(agentId, activity, `file-${i}.ts`), i counting the calls
\* made for the agent; an agent without a profile is not recorded
RecordActivityCall(agentId, activity) ==
    /\ agentId \in RingAgents => Len(Recorded[agentId]) < MaxRingCalls
    /\ \E i \in {IF agentId \in RingAgents THEN Len(Recorded[agentId]) ELSE 0} :
         /\ store' = recordActivity(store, agentId, activity, i)
         /\ last' = [ kind |-> "recordActivity", agentId |-> agentId,
                      data |-> [ recorded |->
                                   [id \in RingAgents |->
                                      IF id = agentId
                                      THEN Append(Recorded[id],
                                                  [activity |-> activity, detail |-> i])
                                      ELSE Recorded[id]] ],
                      existing |-> NoSession, profile |-> NoProfile ]
    /\ UNCHANGED <<disk, agents, agentOrder, buildings, buildingPrevLevels, assigned,
                   usedNames, now, sweeps, inflight, requests, emitted, achieved,
                   storeOrder, buildingOrder, sseClients, written>>

InitRing == Fresh({RingStore})

NextRing ==
    \E agentId \in RingAgents \cup {UnknownAgent} : RecordActivityCall(agentId, "coding")

SpecRing == InitRing /\ [][NextRing]_vars

Smaller(a, b) == IF a <= b THEN a ELSE b

\* C32: after any sequence of recordActivity calls a profile's
\* recentActivity holds at most 20 entries, and they are the most recent
\* entries recorded for the agent, in the order they were recorded.
C32_RingKeepsTheMostRecent ==
    \A id \in RingAgents :
        LET ring == store[id].recentActivity
            rec  == Recorded[id]
        IN  /\ Len(ring) = Smaller(Len(rec), MAX_RECENT)
            /\ \A i \in 1..Len(ring) : ring[i] = rec[Len(rec) - Len(ring) + i]

\* Two entries more than the ring holds have been recorded for an agent: the
\* two oldest are gone
C32_Witness ==
    \E id \in RingAgents :
        /\ Len(Recorded[id]) = MAX_RECENT + 2
        /\ Len(store[id].recentActivity) = MAX_RECENT
        /\ store[id].recentActivity[1].detail = 2
        /\ store[id].recentActivity[MAX_RECENT].detail = MAX_RECENT + 1


---------------------------------------------------------------------------
NoDuplicates(seq) == \A i, j \in 1..Len(seq) : i # j => seq[i] # seq[j]

Members(seq) == { seq[i] : i \in 1..Len(seq) }

\* C33 as stated: in every step each building profile stays, none of its
\* four counters decreases and its uniqueVisitors only grows; in every state
\* uniqueVisitors holds no agent id twice and is no longer than totalVisits.
C33_AsClaimed ==
    /\ [][ \A b \in DOMAIN buildings :
             /\ b \in DOMAIN buildings'
             /\ buildings'[b].toolCalls >= buildings[b].toolCalls
             /\ buildings'[b].totalInputBytes >= buildings[b].totalInputBytes
             /\ buildings'[b].totalOutputBytes >= buildings[b].totalOutputBytes
             /\ buildings'[b].totalVisits >= buildings[b].totalVisits
             /\ Members(buildings[b].uniqueVisitors)
                    \subseteq Members(buildings'[b].uniqueVisitors) ]_vars
    /\ [](\A b \in DOMAIN buildings :
             /\ NoDuplicates(buildings[b].uniqueVisitors)
             /\ Len(buildings[b].uniqueVisitors) <= buildings[b].totalVisits)


---------------------------------------------------------------------------
(* Attribution of work to buildings: heartbeats with activities inside and *)
(* outside the ACTIVITY_BUILDING table, from empty stores                   *)

\* Heartbeats of an agent that reports activities of the table, an activity
\* that is no key of it, and one that is a key of Object.prototype; of a
\* sub-agent; and of a hook that sends an object as the activity
CreditBeats ==
    { Beat(ParentLabel, act, "", b, JAbsent, "undefined", FALSE, <<>>, FALSE) :
        act \in {Null, "idle", "coding", "dancing", "constructor"},
        b \in {JAbsent, JNum(5000)} }
    \cup
    { Beat(ChildLabel, "testing", "", JAbsent, JAbsent, "undefined", FALSE, ParentLabel, FALSE) }

CreditThrowing ==
    { Beat(ParentLabel, Unprintable, "", JAbsent, JAbsent, "undefined", FALSE, <<>>, FALSE) }

MaxCreditRequests == 3

InitCredit == Fresh({ <<>> })

NextCredit ==
    \/ Arrive("heartbeat", MaxCreditRequests)
    \/ \E data \in CreditBeats : Heartbeat(data)
    \/ \E data \in CreditThrowing : HeartbeatThrows(data)
    \/ \E gap \in SweepGaps : Sweep(gap)

SpecCredit == InitCredit /\ [][NextCredit]_vars

\* The values of ACTIVITY_BUILDING
BuildingIds == {"guild", "forge", "arena", "library", "tower", "campfire"}

\* The keys of ACTIVITY_BUILDING
TableActivities == {"planning", "coding", "testing", "researching", "reviewing", "idle"}

\* C34 as stated: every key of the building store is one of the six building
\* ids, and a heartbeat whose activity is a string outside the table changes
\* no building profile but the campfire's.
C34_AsClaimed ==
    /\ [](DOMAIN buildings \subseteq BuildingIds)
    /\ [][ ( /\ last'.kind = "heartbeat"
             /\ last'.data.activity # Null
             /\ last'.data.activity \notin TableActivities ) =>
               \A b \in DOMAIN buildings' \ {"campfire"} :
                    b \in DOMAIN buildings /\ buildings'[b] = buildings[b] ]_vars


RECURSIVE SumToolCalls(_)
\* the sum of toolCalls over the profiles of a store
SumToolCalls(profiles) ==
    IF DOMAIN profiles = {} THEN 0
    ELSE LET k == CHOOSE x \in DOMAIN profiles : TRUE
         IN  profiles[k].toolCalls + SumToolCalls(Without(profiles, k))

\* C37 as stated: from empty stores, after any heartbeats and sweeps, the
\* building profiles' toolCalls add up to the agent profiles' toolCalls.
C37_AsClaimed == SumToolCalls(buildings) = SumToolCalls(store)


---------------------------------------------------------------------------
(* The debounced save, with getProfile called on its own *)

\* getProfile calls debouncedSave() when it creates the profile or sets its
\* parentId, not when it only changes the name
getProfileSaves(st, agentId, parentId) ==
    \/ agentId \notin DOMAIN st
    \/ parentId # Null /\ st[agentId].parentId = Null

\* getProfile(agentId, dwarfName, parentId), with the save it schedules
GetProfileSaving(agentId, dwarfName, parentId) ==
    /\ disk.up /\ disk.pc = <<>>
    /\ requests < MaxPersistCalls
    /\ store' = getProfile(store, agentId, dwarfName, parentId)
    /\ storeOrder' = ObjectKeys(storeOrder, store')
    /\ disk' = IF getProfileSaves(store, agentId, parentId)
               THEN debouncedSave(disk, "agents") ELSE disk
    /\ requests' = requests + 1
    /\ last' = [Quiet("getProfile") EXCEPT !.agentId = agentId]
    /\ UNCHANGED <<agents, agentOrder, buildings, buildingPrevLevels, assigned, usedNames,
                   now, sweeps, inflight, emitted, achieved, buildingOrder, sseClients,
                   written>>

InitDebounce == Fresh({<<>>, StoredAt(49)})

NextDebounce ==
    \/ \E dwarfName \in ProfileNames, parentId \in {Null, NormalizeId(ChildLabel)} :
          GetProfileSaving(PersistAgent, dwarfName, parentId)
    \/ AgentStoreCall(PersistAgent, JNum(5000))
    \/ BuildingStoreCall(PersistBuilding, JNum(5000))
    \/ \E s \in Stores : TimerFires(s)
    \/ RunStep
    \/ \E cause \in Terminations : Terminate(cause)
    \/ Crash
    \/ Restart

SpecDebounce == InitDebounce /\ [][NextDebounce]_vars

\* The canonical file is what a save of the store's memory would write now
\* (no file counts as the empty store's)
UpToDate(s) ==
    \/ disk.file[s] = Complete(stringify(s, Memory(s)))
    \/ disk.file[s] = NoFile /\ Memory(s) = <<>>

\* A save of store s is pending or running
SavePending(s) ==
    disk.timer[s] \/ \E i \in 1..Len(disk.pc) : disk.pc[i].store = s /\ disk.pc[i].op = "write"

\* C35 as stated: a call that changes a store leaves a save of it pending,
\* a write step writes the store as the memory holds it at that moment, and
\* while the process runs a store whose memory differs from its file has a
\* save pending.
C35_AsClaimed ==
    /\ [][ \A s \in Stores :
             (disk.up /\ disk.pc = <<>> /\ Memory(s)' # Memory(s)) => disk'.timer[s] ]_vars
    /\ [][ \A s \in Stores :
             (last'.kind = "write" /\ Head(disk.pc).store = s) =>
                 disk'.tmp[s] = Complete(stringify(s, Memory(s))) ]_vars
    /\ [](\A s \in Stores : (disk.up /\ ~UpToDate(s)) => SavePending(s))


---------------------------------------------------------------------------
(* Saves on a disk that stops taking writes and takes them again *)

\* The steps left of the running code when the save at its head has thrown:
\* the catch clause of save() skips to the end of that save
afterThrow(pc) ==
    LET k == CHOOSE i \in 1..Len(pc) :
                 pc[i].op = "rename" /\ \A j \in 1..(i - 1) : pc[j].op # "rename"
    IN  SubSeq(pc, k + 1, Len(pc))

\* writeFileSync or renameSync throws: the error is logged, the temporary
\* file keeps what it held, the canonical file is not touched
StepFails ==
    /\ disk.up /\ disk.pc # <<>>
    /\ ~disk.writable
    /\ Head(disk.pc).op \in {"open", "write", "rename"}
    /\ disk' = [disk EXCEPT !.pc = afterThrow(disk.pc)]
    /\ last' = Quiet("failed")
    /\ UNCHANGED <<agents, agentOrder, store, buildings, buildingPrevLevels, assigned,
                   usedNames, now, sweeps, inflight, requests, emitted, achieved,
                   storeOrder, buildingOrder, sseClients, written>>

\* The disk fills up or is taken away, and is there again
DiskTurns(writable) ==
    /\ disk.writable # writable
    /\ disk' = [disk EXCEPT !.writable = writable]
    /\ last' = Quiet("disk")
    /\ UNCHANGED <<agents, agentOrder, store, buildings, buildingPrevLevels, assigned,
                   usedNames, now, sweeps, inflight, requests, emitted, achieved,
                   storeOrder, buildingOrder, sseClients, written>>

MaxFailingCalls == 2

InitFailing == Fresh({<<>>, StoredAt(49)})

Mutates ==
    \/ requests < MaxFailingCalls /\ AgentStoreCall(PersistAgent, JNum(5000))
    \/ requests < MaxFailingCalls /\ BuildingStoreCall(PersistBuilding, JNum(5000))

\* The timers fire and the synchronous code runs to its end
Runs ==
    \/ \E s \in Stores : TimerFires(s)
    \/ RunStep
    \/ StepFails

NextFailing ==
    \/ Mutates
    \/ Runs
    \/ \E writable \in BOOLEAN : DiskTurns(writable)

SpecFailing == InitFailing /\ [][NextFailing]_vars /\ WF_vars(Runs)

\* C36 as stated: a save that fails changes neither store and leaves the
\* process running, and a store whose memory is not on the disk while the
\* disk takes writes is written there, or the disk stops taking writes again.
C36_AsClaimed ==
    /\ [][ last'.kind = "failed" => (UNCHANGED <<store, buildings>> /\ disk'.up) ]_vars
    /\ \A s \in Stores :
         (disk.writable /\ ~UpToDate(s)) ~> (UpToDate(s) \/ ~disk.writable)


\* ---------------------------------------------------------------------
\* Live sessions and their profiles                              (C38)
\* ---------------------------------------------------------------------

\* the broadcasts hold an agent:xp event of the agent
XPBroadcast(events, agentId) ==
    \E i \in DOMAIN events :
        events[i].type = "agent:xp" /\ events[i].agentId = agentId

\* the live sessions whose agent has no profile
Profileless == { a \in DOMAIN agents : a \notin DOMAIN store }

C39_AsClaimed ==
    \A a \in DOMAIN agents :
        a \in DOMAIN store => SameId(agents[a].parentId, store[a].parentId)


\* C39: the session holds the parent its own heartbeats name, the profile the
\* first parent ever named at a join.  The heartbeat that creates a session
\* gives it the normalised parentAgent of that heartbeat (null when it names
\* none), and the two parentIds are then equal exactly when the profile is new,
\* had no parent, or had the parent the heartbeat names.  A heartbeat for a
\* live agent changes the session's parentId only when it carries newSpawn and
\* a parentAgent, and then to that parent.
C39_SessionKeepsItsOwnParent ==
    [][ last'.kind = "heartbeat" =>
          LET id    == last'.agentId
              named == Parsed(last'.data).parentId
          IN  IF id \notin DOMAIN agents
              THEN /\ SameId(agents'[id].parentId, named)
                   /\ SameId(agents'[id].parentId, store'[id].parentId)
                        <=> \/ id \notin DOMAIN store
                            \/ SameId(store[id].parentId, Null)
                            \/ SameId(store[id].parentId, named)
              ELSE SameId(agents'[id].parentId,
                          IF last'.data.newSpawn /\ ~SameId(named, Null)
                          THEN named ELSE agents[id].parentId) ]_vars

\* a live sub-agent was re-activated with newSpawn by another parent than the
\* one in its profile: the session holds the new parent, the profile the first
C39_Witness ==
    /\ last.kind = "heartbeat"
    /\ last.existing # NoSession
    /\ last.data.newSpawn
    /\ last.agentId \in DOMAIN agents
    /\ last.agentId \in DOMAIN store
    /\ ~SameId(agents[last.agentId].parentId, Null)
    /\ ~SameId(store[last.agentId].parentId, Null)
    /\ ~SameId(agents[last.agentId].parentId, store[last.agentId].parentId)

====
